---- MODULE Spec2Model ----
(***************************************************************************)
(* Task lifecycle of the project/task tracking dashboard.                  *)
(*                                                                         *)
(* The Store holds Task rows; the REST handlers POST /api/tasks,           *)
(* PUT /api/tasks/[id] and DELETE /api/tasks/[id] validate the session,    *)
(* the request body and the row before they write.  The administrator's    *)
(* project view keeps a local copy of the rows and edits them through PUT. *)
(***************************************************************************)
EXTENDS Integers, Sequences, FiniteSets, TLC

\* ------------------------------------------------------------------ bounds
\* Row ids handed out by the Store: 1..MaxTasks (ids are never reused).
MaxTasks == 2
\* Number of HTTP requests in one behaviour.
MaxRequests == 2
\* Review ids handed out by the Store: 1..MaxReviews (never reused).
MaxReviews == 2
\* Number of tasks handed to ProjectDetailTable.
MaxList == 2

\* ------------------------------------------------------------ JSON values
\* A JSON/JS value is a tagged record; strings are sequences of characters.
Undefined == [t |-> "undefined"]
Null == [t |-> "null"]
NaN == [t |-> "NaN"]
Num(n) == [t |-> "number", v |-> n]
Str(s) == [t |-> "string", v |-> s]

Digits == <<"0", "1", "2", "3", "4", "5", "6", "7", "8", "9">>
IsDigit(c) == \E i \in 1..10 : Digits[i] = c
DigitVal(c) == (CHOOSE i \in 1..10 : Digits[i] = c) - 1

RECURSIVE TrimStart(_)
\* String.prototype.trim, leading part
TrimStart(s) ==
  IF s # <<>> /\ Head(s) = " " THEN TrimStart(Tail(s)) ELSE s

RECURSIVE TrimEnd(_)
\* String.prototype.trim, trailing part
TrimEnd(s) ==
  IF s # <<>> /\ s[Len(s)] = " " THEN TrimEnd(SubSeq(s, 1, Len(s) - 1)) ELSE s

\* String.prototype.trim
Trim(s) == TrimEnd(TrimStart(s))

RECURSIVE DigitPrefix(_, _)
\* value of the longest run of leading decimal digits of s, acc so far
DigitPrefix(s, acc) ==
  IF s # <<>> /\ IsDigit(Head(s))
    THEN DigitPrefix(Tail(s), 10 * acc + DigitVal(Head(s)))
    ELSE acc

\* parseFloat of a string: leading whitespace skipped, optional sign, then
\* digits; NaN when no digit follows.  (Whole numbers only.)
ParseFloatStr(s) ==
  LET u == TrimStart(s)
      neg == u # <<>> /\ Head(u) = "-"
      d == IF neg THEN Tail(u) ELSE u
  IN IF d = <<>> \/ ~IsDigit(Head(d)) THEN NaN
     ELSE Num(IF neg THEN 0 - DigitPrefix(d, 0) ELSE DigitPrefix(d, 0))

\* parseFloat(v): the argument is converted to a string first
parseFloat(v) ==
  CASE v.t = "number" -> v
    [] v.t = "string" -> ParseFloatStr(v.v)
    [] OTHER -> NaN

isNaN(x) == x.t = "NaN"

\* JS truthiness, as used by `!x` and `x || y`
Truthy(v) ==
  CASE v.t = "undefined" -> FALSE
    [] v.t = "null" -> FALSE
    [] v.t = "NaN" -> FALSE
    [] v.t = "number" -> v.v # 0
    [] v.t = "string" -> v.v # <<>>
    [] OTHER -> TRUE

\* ---------------------------------------------------------------- domains
\* session.user of auth(): id and role; NoSession when auth() yields none
NoSession == [t |-> "null"]
Users == {[id |-> "e1", role |-> "employee"],
          [id |-> "e2", role |-> "employee"],
          [id |-> "a1", role |-> "platform_admin"]}
Sessions == Users \cup {NoSession}

TaskStatus == {"pending", "approved", "rejected"}
\* rows of the Projects table
Projects == {<<"p">>, <<"r">>}
TaskIds == 1..MaxTasks
\* an id that resolves to no row
NoTask == [t |-> "none"]

\* request values tried for each body field
NameIn == {Undefined, Str(<<>>), Str(<<" ">>), Str(<<"a", " ">>)}
DescIn == {Undefined, Str(<<" ">>), Str(<<"d">>)}
HoursIn == {Undefined, Num(0 - 1), Num(0), Num(1), Str(<<"a">>)}
StatusIn == {Undefined} \cup {Str(<<s>>) : s \in TaskStatus}
ProjectIn == {Undefined, Str(<<"p">>), Str(<<"q">>)}
EmployeeIn == {Undefined, Str(<<"e2">>)}

ReviewIds == 1..MaxReviews
\* an id that resolves to no review
NoReview == [t |-> "none"]
\* ratings tried in the requests of API clients
RatingIn == {Undefined, Num(0), Num(4), Num(5), Num(6)}
\* reviewers sending requests of their own, next to the administrator who
\* works in the review section
ReviewClients == {NoSession, [id |-> "e1", role |-> "employee"],
                  [id |-> "a2", role |-> "platform_admin"]}

\* values of the search parameters of GET /api/tasks (null when absent)
ProjectQuery == {Null, Str(<<"p">>), Str(<<"r">>)}
StatusQuery == {Null, Str(<<>>), Str(<<"pending">>)}
EmployeeQuery == {Null, Str(<<"e1">>)}
Queries ==
  [projectId : ProjectQuery, status : StatusQuery, employeeId : EmployeeQuery]

\* number of fields in which two bodies differ
Deviation(b, c) == Cardinality({f \in DOMAIN b : b[f] # c[f]})

DefaultPutBody ==
  [taskName |-> Str(<<"a", " ">>), description |-> Undefined,
   expectedHours |-> Num(1), actualHours |-> Num(1), status |-> Undefined]
\* bodies sent to PUT /api/tasks/[id]
PutBodies ==
  {b \in [taskName : NameIn, description : DescIn, expectedHours : HoursIn,
          actualHours : HoursIn, status : StatusIn] :
     Deviation(b, DefaultPutBody) <= 1}

DefaultPostBody ==
  [projectId |-> Str(<<"p">>), taskName |-> Str(<<"a", " ">>),
   description |-> Undefined, expectedHours |-> Num(1),
   actualHours |-> Num(1), employeeId |-> Undefined]
\* bodies sent to POST /api/tasks
PostBodies ==
  {b \in [projectId : ProjectIn, taskName : NameIn, description : DescIn,
          expectedHours : HoursIn, actualHours : HoursIn,
          employeeId : EmployeeIn] :
     \/ Deviation(b, DefaultPostBody) <= 1
     \/ b.projectId = Str(<<"q">>) /\ Deviation(b, DefaultPostBody) <= 2}

\* bodies sent along with reads: a complete one and one without a name
ApiPutBodies ==
  {b \in PutBodies : Deviation(b, DefaultPutBody) = 0 \/ b.taskName = Undefined}
ApiPostBodies ==
  {b \in PostBodies : Deviation(b, DefaultPostBody) = 0 \/ b.taskName = Undefined}

\* ------------------------------------------------------------------ state
VARIABLES
  store,      \* Tasks table: id -> row, or NoTask
  nextId,     \* next id the Tasks table hands out
  requests,   \* number of HTTP requests handled so far
  last,       \* the last request, the row it addressed before it ran, and
              \* the response
  \* local state of the administrator's ProjectDetailView
  allTasks,             \* local copy of the rows: id -> row shown, or NoTask
  editingTaskId,        \* id of the row being edited, 0 for null
  editedTaskName,
  editedExpectedHours,
  editedStatus,
  isSaving,
  saving,               \* the handleSaveEdit call awaiting its response, or
                        \* Null: the values its closure captured
  \* Reviews table
  reviewStore,          \* id -> review, or NoReview
  nextReviewId,         \* next id the Reviews table hands out
  \* local state of the administrator's TaskReviewSection
  sessionData,          \* useSession().data: the user, NoSession while loading
  reviews,
  loading,
  myReview,             \* the administrator's own review, or Null
  showForm,
  rating,
  isSubmitting,
  editingReviewId,      \* 0 for null
  editRating,
  isUpdating,
  isDeleting,
  calls,                \* requests of the section awaiting their response
  replyText,
  replyingToId,         \* 0 for null
  isSubmittingReply,
  isDeletingReply,
  \* ProjectDetailTable
  tasks,                \* the tasks handed to the table
  summary,              \* the summary it shows, Null before it has rendered
  \* AddProjectModal
  showAddProject,       \* isOpen
  formData,
  errors,
  modalSubmitting,      \* isSubmitting of the modal
  projectCalls,         \* create-project requests awaiting their response
  attempt,              \* the last handleSubmit: the form it found, the
                        \* errors it set and whether it sent a request
  deletingTaskId,       \* 0 for null
  taskSearchTerm,
  filteredTasks,        \* the filtered tasks, as their ids in list order
  selectedTasks,
  deletes,              \* DELETE requests of the view awaiting their response
  \* PUT /api/tasks/[id], statement by statement
  inUpdate,             \* PUT requests between their select and their update
  \* AdminDashboard
  selectedProject,      \* Null or the project clicked
  isLoadingTasks,
  taskFetches           \* fetchTasks calls awaiting their response

serverVars == <<store, nextId, requests, last>>
selectionVars ==
  <<deletingTaskId, taskSearchTerm, filteredTasks, selectedTasks, deletes>>
viewVars == <<allTasks, editingTaskId, editedTaskName, editedExpectedHours,
              editedStatus, isSaving, saving, selectionVars>>
ledgerVars == <<reviewStore, nextReviewId>>
panelVars == <<sessionData, reviews, loading, myReview, showForm, rating,
               isSubmitting, editingReviewId, editRating, isUpdating,
               isDeleting, calls>>
replyVars == <<replyText, replyingToId, isSubmittingReply, isDeletingReply>>
tableVars == <<tasks, summary>>
modalVars == <<showAddProject, formData, errors, modalSubmitting,
               projectCalls, attempt>>
dashboardVars == <<selectedProject, isLoadingTasks, taskFetches>>
clientVars ==
  <<panelVars, replyVars, tableVars, modalVars, dashboardVars, inUpdate>>
vars == <<store, nextId, requests, last, allTasks, editingTaskId,
          editedTaskName, editedExpectedHours, editedStatus, isSaving, saving,
          selectionVars, reviewStore, nextReviewId, panelVars, replyVars, tableVars,
          modalVars, dashboardVars, inUpdate>>

\* a row of the Tasks table
Row(projectId, employeeId, taskName, description, expected, actual, status) ==
  [projectId |-> projectId, employeeId |-> employeeId, taskName |-> taskName,
   description |-> description, expectedHours |-> expected,
   actualHours |-> actual, status |-> status]

Lookup(st, id) == IF id \in DOMAIN st THEN st[id] ELSE NoTask

\* text of a decimal column value: optional sign, then digits only
IsNumeric(s) ==
  LET d == IF s # <<>> /\ Head(s) = "-" THEN Tail(s) ELSE s
  IN d # <<>> /\ \A i \in 1..Len(d) : IsDigit(d[i])

\* The decimal column takes the text x.toString(): a number is stored as it
\* is, a numeric text as its value, any other text makes the statement fail.
DecimalOk(v) == v.t = "number" \/ (v.t = "string" /\ IsNumeric(v.v))
DecimalOf(v) == IF v.t = "number" THEN v.v ELSE ParseFloatStr(v.v).v

Response(code, st, task) == [code |-> code, store |-> st, task |-> task]

\* ------------------------------------------------- POST /api/tasks (create)
\* `!projectId || !taskName || !expectedHours || !actualHours`
PostInvalid(body) ==
  \/ ~Truthy(body.projectId)
  \/ ~Truthy(body.taskName)
  \/ ~Truthy(body.expectedHours)
  \/ ~Truthy(body.actualHours)

\* the row of `.insert(Tasks).values({...})`
PostValues(session, body) ==
  Row(body.projectId.v, session.id, body.taskName.v,
      IF body.description.t = "undefined" THEN Null ELSE body.description,
      DecimalOf(body.expectedHours), DecimalOf(body.actualHours), "pending")

\* POSTHandler without the project lookup: the row is inserted whatever the
\* projectId
POSTHandlerNoProjectLookup(st, nid, session, body) ==
  IF session = NoSession THEN Response(401, st, Null)
  ELSE IF PostInvalid(body) THEN Response(400, st, Null)
  ELSE IF ~DecimalOk(body.expectedHours) \/ ~DecimalOk(body.actualHours)
    THEN Response(500, st, Null)
  ELSE Response(201, [st EXCEPT ![nid] = PostValues(session, body)],
                PostValues(session, body))

POSTHandler(st, nid, session, body) ==
  IF session = NoSession THEN Response(401, st, Null)
  ELSE IF PostInvalid(body) THEN Response(400, st, Null)
  ELSE IF body.projectId.v \notin Projects THEN Response(404, st, Null)
  ELSE IF ~DecimalOk(body.expectedHours) \/ ~DecimalOk(body.actualHours)
    THEN Response(500, st, Null)
  ELSE Response(201, [st EXCEPT ![nid] = PostValues(session, body)],
                PostValues(session, body))

\* --------------------------------------------- PUT /api/tasks/[id] (update)
\* `!taskName?.trim()` and the actualHours check
PutInvalid(body) ==
  \/ body.taskName.t = "undefined"
  \/ Trim(body.taskName.v) = <<>>
  \/ /\ body.actualHours.t # "undefined"
     /\ \/ isNaN(parseFloat(body.actualHours))
        \/ parseFloat(body.actualHours).v < 0

\* PutForbidden without the status check: the owner may edit a decided task
PutForbiddenOwnerOnly(task, session) ==
  task.employeeId # session.id /\ session.role # "platform_admin"

\* PutForbidden with the status check applied to administrators too
PutForbiddenLockedForAll(task, session) ==
  \/ task.employeeId # session.id /\ session.role # "platform_admin"
  \/ task.status # "pending"

\* the two 403 checks of PUT
PutForbidden(task, session) ==
  \/ task.employeeId # session.id /\ session.role # "platform_admin"
  \/ task.status # "pending" /\ session.role # "platform_admin"

\* PutSet writing the body's status as well
PutSetWithStatus(task, body) ==
  [task EXCEPT
     !.taskName = Trim(body.taskName.v),
     !.description =
        IF body.description.t = "string" /\ Trim(body.description.v) # <<>>
          THEN Str(Trim(body.description.v)) ELSE Null,
     !.expectedHours =
        IF body.expectedHours.t = "undefined" THEN @
        ELSE DecimalOf(body.expectedHours),
     !.actualHours =
        IF body.actualHours.t = "undefined" THEN @
        ELSE DecimalOf(body.actualHours),
     !.status =
        IF body.status.t = "undefined" THEN @ ELSE body.status.v[1]]

\* the row after `.update(Tasks).set({...})`; an undefined value leaves its
\* column alone
PutSet(task, body) ==
  [task EXCEPT
     !.taskName = Trim(body.taskName.v),
     !.description =
        IF body.description.t = "string" /\ Trim(body.description.v) # <<>>
          THEN Str(Trim(body.description.v)) ELSE Null,
     !.expectedHours =
        IF body.expectedHours.t = "undefined" THEN @
        ELSE DecimalOf(body.expectedHours),
     !.actualHours =
        IF body.actualHours.t = "undefined" THEN @
        ELSE DecimalOf(body.actualHours)]

\* PUTHandler loading the task before it validates the body
PUTHandlerLookupFirst(st, session, id, body) ==
  IF session = NoSession THEN Response(401, st, Null)
  ELSE IF Lookup(st, id) = NoTask THEN Response(404, st, Null)
  ELSE IF PutInvalid(body) THEN Response(400, st, Null)
  ELSE IF PutForbidden(st[id], session) THEN Response(403, st, Null)
  ELSE IF body.expectedHours.t # "undefined" /\ ~DecimalOk(body.expectedHours)
    THEN Response(500, st, Null)
  ELSE Response(200, [st EXCEPT ![id] = PutSet(st[id], body)],
                PutSet(st[id], body))

PUTHandler(st, session, id, body) ==
  IF session = NoSession THEN Response(401, st, Null)
  ELSE IF PutInvalid(body) THEN Response(400, st, Null)
  ELSE IF Lookup(st, id) = NoTask THEN Response(404, st, Null)
  ELSE IF PutForbidden(st[id], session) THEN Response(403, st, Null)
  ELSE IF body.expectedHours.t # "undefined" /\ ~DecimalOk(body.expectedHours)
    THEN Response(500, st, Null)
  ELSE Response(200, [st EXCEPT ![id] = PutSet(st[id], body)],
                PutSet(st[id], body))

\* ------------------------------------------------ DELETE /api/tasks/[id]
\* DeleteForbidden with PUT's pending-only rule carried over
DeleteForbiddenUnlessPending(task, session) ==
  \/ task.employeeId # session.id /\ session.role # "platform_admin"
  \/ task.status # "pending" /\ session.role # "platform_admin"

\* DeleteForbidden without the ownership check
DeleteForbiddenNobody(task, session) == FALSE

\* the 403 check of DELETE
DeleteForbidden(task, session) ==
  task.employeeId # session.id /\ session.role # "platform_admin"

\* DELETEHandler removing the row before the ownership check
DELETEHandlerDeleteFirst(st, session, id) ==
  IF session = NoSession THEN Response(401, st, Null)
  ELSE IF Lookup(st, id) = NoTask THEN Response(404, st, Null)
  ELSE IF DeleteForbidden(st[id], session)
    THEN Response(403, [st EXCEPT ![id] = NoTask], Null)
  ELSE Response(200, [st EXCEPT ![id] = NoTask], Null)

\* DELETEHandler answering 200 without removing the row
DELETEHandlerKeepsRow(st, session, id) ==
  IF session = NoSession THEN Response(401, st, Null)
  ELSE IF Lookup(st, id) = NoTask THEN Response(404, st, Null)
  ELSE IF DeleteForbidden(st[id], session) THEN Response(403, st, Null)
  ELSE Response(200, st, Null)

DELETEHandler(st, session, id) ==
  IF session = NoSession THEN Response(401, st, Null)
  ELSE IF Lookup(st, id) = NoTask THEN Response(404, st, Null)
  ELSE IF DeleteForbidden(st[id], session) THEN Response(403, st, Null)
  ELSE Response(200, [st EXCEPT ![id] = NoTask], Null)

\* ------------------------------------------------- GET /api/tasks (list)
\* Tasks.createdAt is set when the row is inserted and never written again;
\* ids are handed out in insertion order, so a later row has the larger id
createdAt(id) == id

\* a selected row: the task's id and its columns
ListedTask(id, row) == [taskId |-> id] @@ row

\* Conditions joined with `or` instead of `and`
ConditionsAnyOf(query, row) ==
  \/ ~(Truthy(query.projectId) \/ Truthy(query.status)
        \/ Truthy(query.employeeId))
  \/ Truthy(query.projectId) /\ row.projectId = query.projectId.v
  \/ Truthy(query.status) /\ row.status = query.status.v[1]
  \/ Truthy(query.employeeId) /\ row.employeeId = query.employeeId.v[1]

\* `and(...conditions)`: one eq per search parameter that is truthy
Conditions(query, row) ==
  /\ Truthy(query.projectId) => row.projectId = query.projectId.v
  /\ Truthy(query.status) => row.status = query.status.v[1]
  /\ Truthy(query.employeeId) => row.employeeId = query.employeeId.v[1]

RECURSIVE OrderByCreatedAtDesc(_)
\* `.orderBy(desc(Tasks.createdAt))` of the rows with these ids
OrderByCreatedAtDesc(ids) ==
  IF ids = {} THEN <<>>
  ELSE LET newest == CHOOSE i \in ids :
                       \A j \in ids : createdAt(j) <= createdAt(i)
       IN <<newest>> \o OrderByCreatedAtDesc(ids \ {newest})

\* the rows the list query returns
SelectTasks(st, query) ==
  LET ids == {id \in DOMAIN st :
                st[id] # NoTask /\ Conditions(query, st[id])}
      ordered == OrderByCreatedAtDesc(ids)
  IN [i \in 1..Len(ordered) |-> ListedTask(ordered[i], st[ordered[i]])]

\* GETAllHandler without the session check
GETAllHandlerNoAuth(st, session, query) ==
  Response(200, st, SelectTasks(st, query))

GETAllHandler(st, session, query) ==
  IF session = NoSession THEN Response(401, st, Null)
  ELSE Response(200, st, SelectTasks(st, query))

\* ------------------------------------------- GET /api/tasks/[id] (single)
GETHandler(st, session, id) ==
  IF session = NoSession THEN Response(401, st, Null)
  ELSE IF Lookup(st, id) = NoTask THEN Response(404, st, Null)
  ELSE Response(200, st, ListedTask(id, st[id]))

\* ------------------------------------------------------- Review Ledger
\* a row of the Reviews table
Review(taskId, reviewerId, reviewerType, stars) ==
  [taskId |-> taskId, reviewerId |-> reviewerId,
   reviewerType |-> reviewerType, rating |-> stars, feedback |-> Null,
   reply |-> Null, repliedAt |-> Null]

LookupReview(rs, id) == IF id \in DOMAIN rs THEN rs[id] ELSE NoReview

\* a rating is an integer from 1 to 5
RatingValid(v) == v.t = "number" /\ v.v \in 1..5

\* the ids of the reviews of a task
ReviewsOf(rs, taskId) ==
  {id \in DOMAIN rs : rs[id] # NoReview /\ rs[id].taskId = taskId}

\* a review by this reviewer for this task already exists
Reviewed(rs, taskId, reviewerId) ==
  \E id \in ReviewsOf(rs, taskId) : rs[id].reviewerId = reviewerId

RECURSIVE InIdOrder(_)
\* the ids as a sequence, smallest first
InIdOrder(ids) ==
  IF ids = {} THEN <<>>
  ELSE LET first == CHOOSE i \in ids : \A j \in ids : i <= j
       IN <<first>> \o InIdOrder(ids \ {first})

\* a returned review: its id and its columns
ListedReview(id, review) == [id |-> id] @@ review

\* ListByTask: all reviews of the task
ListByTask(rs, taskId) ==
  LET ordered == InIdOrder(ReviewsOf(rs, taskId))
  IN [i \in 1..Len(ordered) |-> ListedReview(ordered[i], rs[ordered[i]])]

ListByTaskHandler(rs, session, taskId) ==
  IF session = NoSession THEN Response(401, rs, Null)
  ELSE Response(200, rs, ListByTask(rs, taskId))

\* the review Submit persists; the reviewer's role is recorded with it
SubmitValues(session, body) ==
  Review(body.taskId, session.id,
         IF session.role = "platform_admin" THEN "admin" ELSE "employee",
         body.rating.v)

SubmitHandler(rs, nid, st, session, body) ==
  IF session = NoSession THEN Response(401, rs, Null)
  ELSE IF ~RatingValid(body.rating) THEN Response(400, rs, Null)
  ELSE IF Lookup(st, body.taskId) = NoTask THEN Response(404, rs, Null)
  ELSE IF Reviewed(rs, body.taskId, session.id) THEN Response(409, rs, Null)
  ELSE Response(201, [rs EXCEPT ![nid] = SubmitValues(session, body)],
                ListedReview(nid, SubmitValues(session, body)))

AmendHandler(rs, session, id, body) ==
  IF session = NoSession THEN Response(401, rs, Null)
  ELSE IF LookupReview(rs, id) = NoReview THEN Response(404, rs, Null)
  ELSE IF rs[id].reviewerId # session.id THEN Response(403, rs, Null)
  ELSE IF ~RatingValid(body.rating) THEN Response(400, rs, Null)
  ELSE Response(200, [rs EXCEPT ![id].rating = body.rating.v],
                ListedReview(id, [rs[id] EXCEPT !.rating = body.rating.v]))

DeleteReviewHandler(rs, session, id) ==
  IF session = NoSession THEN Response(401, rs, Null)
  ELSE IF LookupReview(rs, id) = NoReview THEN Response(404, rs, Null)
  ELSE IF rs[id].reviewerId # session.id THEN Response(403, rs, Null)
  ELSE Response(200, [rs EXCEPT ![id] = NoReview], Null)

\* replies tried in the requests: none, empty, blank and a text
ReplyIn == {Undefined, Str(<<>>), Str(<<" ">>), Str(<<"o", "k">>)}

\* the text of a reply is empty after trim
ReplyEmpty(v) == v.t # "string" \/ Trim(v.v) = <<>>

\* the caller is the owning employee of the reviewed task
OwnsReviewedTask(st, review, session) ==
  /\ Lookup(st, review.taskId) # NoTask
  /\ st[review.taskId].employeeId = session.id

\* a reply without its repliedAt
ReplyValuesTextOnly(review, body, now) == [review EXCEPT !.reply = body.reply]

\* Reply sets reply and repliedAt together
ReplyValues(review, body, now) ==
  [review EXCEPT !.reply = body.reply, !.repliedAt = Num(now)]

\* Reply is a transition of a review that has no reply; the owner's single
\* response cannot be given twice
ReplyHandler(rs, st, session, id, body, now) ==
  IF session = NoSession THEN Response(401, rs, Null)
  ELSE IF LookupReview(rs, id) = NoReview THEN Response(404, rs, Null)
  ELSE IF ~OwnsReviewedTask(st, rs[id], session) THEN Response(403, rs, Null)
  ELSE IF ReplyEmpty(body.reply) THEN Response(400, rs, Null)
  ELSE IF rs[id].reply # Null THEN Response(409, rs, Null)
  ELSE Response(200, [rs EXCEPT ![id] = ReplyValues(rs[id], body, now)],
                ListedReview(id, ReplyValues(rs[id], body, now)))

\* DeleteReply clears reply and repliedAt together
DeleteReplyValues(review) == [review EXCEPT !.reply = Null, !.repliedAt = Null]

\* DeleteReply is a transition of a review that has a reply
DeleteReplyHandler(rs, st, session, id) ==
  IF session = NoSession THEN Response(401, rs, Null)
  ELSE IF LookupReview(rs, id) = NoReview THEN Response(404, rs, Null)
  ELSE IF ~OwnsReviewedTask(st, rs[id], session) THEN Response(403, rs, Null)
  ELSE IF rs[id].reply = Null THEN Response(404, rs, Null)
  ELSE Response(200, [rs EXCEPT ![id] = DeleteReplyValues(rs[id])],
                ListedReview(id, DeleteReplyValues(rs[id])))

\* the Reviews table after the task is deleted: a task owns its reviews, and
\* they go with it
DeleteCascade(rs, taskId) ==
  [id \in DOMAIN rs |->
     IF rs[id] # NoReview /\ rs[id].taskId = taskId THEN NoReview ELSE rs[id]]

\* ---------------------------------------------------------------- actions
Request(op, session, id, body, before, r) ==
  [op |-> op, session |-> session, id |-> id, body |-> body,
   before |-> before, code |-> r.code, task |-> r.task]

POST(session, body) ==
  /\ requests < MaxRequests
  /\ nextId <= MaxTasks
  /\ LET r == POSTHandler(store, nextId, session, body)
     IN /\ store' = r.store
        /\ nextId' = IF r.code = 201 THEN nextId + 1 ELSE nextId
        /\ last' = Request("POST", session, nextId, body, NoTask, r)
  /\ requests' = requests + 1
  /\ UNCHANGED <<viewVars, ledgerVars, clientVars>>

PUT(session, id, body) ==
  /\ requests < MaxRequests
  /\ LET r == PUTHandler(store, session, id, body)
     IN /\ store' = r.store
        /\ last' = Request("PUT", session, id, body, Lookup(store, id), r)
  /\ requests' = requests + 1
  /\ UNCHANGED <<nextId, viewVars, ledgerVars, clientVars>>

DELETE(session, id) ==
  /\ requests < MaxRequests
  /\ LET r == DELETEHandler(store, session, id)
     IN /\ store' = r.store
        /\ last' = Request("DELETE", session, id, Null, Lookup(store, id), r)
        /\ reviewStore' = IF r.code = 200 THEN DeleteCascade(reviewStore, id)
                          ELSE reviewStore
  /\ requests' = requests + 1
  /\ UNCHANGED <<nextId, viewVars, nextReviewId, clientVars>>

\* a PUT request that has passed its checks: `existing` is the row its
\* select returned
Update(session, id, body, existing) ==
  [session |-> session, id |-> id, body |-> body, existing |-> existing]

\* the status PUT returns with before its update statement, 0 if none
PutRefused(st, session, id, body) ==
  IF session = NoSession THEN 401
  ELSE IF PutInvalid(body) THEN 400
  ELSE IF Lookup(st, id) = NoTask THEN 404
  ELSE IF PutForbidden(st[id], session) THEN 403
  ELSE 0

\* `const [task] = await db.update(Tasks).set(...).where(...).returning()`
\* and the return after it, on the store as it is by then: the statement
\* fails on a value that is no decimal; on no row it writes nothing and
\* `task` is undefined
PutStatement(st, id, body) ==
  IF body.expectedHours.t # "undefined" /\ ~DecimalOk(body.expectedHours)
    THEN Response(500, st, Null)
  ELSE IF Lookup(st, id) = NoTask THEN Response(200, st, Undefined)
  ELSE Response(200, [st EXCEPT ![id] = PutSet(st[id], body)],
                PutSet(st[id], body))

\* PUT up to its update statement: the session, the body, the select and the
\* checks on the selected row
PUTSelect(session, id, body) ==
  /\ requests < MaxRequests
  /\ LET code == PutRefused(store, session, id, body)
     IN IF code # 0
          THEN /\ last' = Request("PUT", session, id, body, Lookup(store, id),
                                  Response(code, store, Null))
               /\ UNCHANGED inUpdate
          ELSE /\ inUpdate' =
                    inUpdate \cup {Update(session, id, body, store[id])}
               /\ UNCHANGED last
  /\ requests' = requests + 1
  /\ UNCHANGED <<store, nextId, viewVars, ledgerVars, panelVars, replyVars,
                 tableVars, modalVars, dashboardVars>>

\* the update statement of a PUT that passed its checks, and its response
PUTUpdate(u) ==
  /\ u \in inUpdate
  /\ inUpdate' = inUpdate \ {u}
  /\ LET r == PutStatement(store, u.id, u.body)
     IN /\ store' = r.store
        /\ last' = Request("PUT", u.session, u.id, u.body, u.existing, r)
  /\ UNCHANGED <<nextId, requests, viewVars, ledgerVars, panelVars,
                 replyVars, tableVars, modalVars, dashboardVars>>

GETAll(session, query) ==
  /\ requests < MaxRequests
  /\ LET r == GETAllHandler(store, session, query)
     IN /\ store' = r.store
        /\ last' = Request("LIST", session, 0, query, NoTask, r)
  /\ requests' = requests + 1
  /\ UNCHANGED <<nextId, viewVars, ledgerVars, clientVars>>

GET(session, id) ==
  /\ requests < MaxRequests
  /\ LET r == GETHandler(store, session, id)
     IN /\ store' = r.store
        /\ last' = Request("GET", session, id, Null, Lookup(store, id), r)
  /\ requests' = requests + 1
  /\ UNCHANGED <<nextId, viewVars, ledgerVars, clientVars>>

\* the review of this reviewer for the task of a Submit, if there is one
ExistingReview(rs, taskId, reviewerId) ==
  IF Reviewed(rs, taskId, reviewerId)
    THEN rs[CHOOSE id \in ReviewsOf(rs, taskId) :
              rs[id].reviewerId = reviewerId]
    ELSE NoReview

Submit(session, body) ==
  /\ requests < MaxRequests
  /\ nextReviewId <= MaxReviews
  /\ LET r == SubmitHandler(reviewStore, nextReviewId, store, session, body)
     IN /\ reviewStore' = r.store
        /\ nextReviewId' = IF r.code = 201 THEN nextReviewId + 1
                           ELSE nextReviewId
        /\ last' = Request("SUBMIT", session, nextReviewId, body,
                           IF session = NoSession THEN NoReview
                           ELSE ExistingReview(reviewStore, body.taskId,
                                               session.id), r)
  /\ requests' = requests + 1
  /\ UNCHANGED <<store, nextId, viewVars, clientVars>>

Amend(session, id, body) ==
  /\ requests < MaxRequests
  /\ LET r == AmendHandler(reviewStore, session, id, body)
     IN /\ reviewStore' = r.store
        /\ last' = Request("AMEND", session, id, body,
                           LookupReview(reviewStore, id), r)
  /\ requests' = requests + 1
  /\ UNCHANGED <<store, nextId, viewVars, nextReviewId, clientVars>>

DeleteReview(session, id) ==
  /\ requests < MaxRequests
  /\ LET r == DeleteReviewHandler(reviewStore, session, id)
     IN /\ reviewStore' = r.store
        /\ last' = Request("DELETE_REVIEW", session, id, Null,
                           LookupReview(reviewStore, id), r)
  /\ requests' = requests + 1
  /\ UNCHANGED <<store, nextId, viewVars, nextReviewId, clientVars>>

Reply(session, id, body) ==
  /\ requests < MaxRequests
  /\ LET r == ReplyHandler(reviewStore, store, session, id, body,
                           requests + 1)
     IN /\ reviewStore' = r.store
        /\ last' = Request("REPLY", session, id, body,
                           LookupReview(reviewStore, id), r)
  /\ requests' = requests + 1
  /\ UNCHANGED <<store, nextId, viewVars, nextReviewId, clientVars>>

DeleteReply(session, id) ==
  /\ requests < MaxRequests
  /\ LET r == DeleteReplyHandler(reviewStore, store, session, id)
     IN /\ reviewStore' = r.store
        /\ last' = Request("DELETE_REPLY", session, id, Null,
                           LookupReview(reviewStore, id), r)
  /\ requests' = requests + 1
  /\ UNCHANGED <<store, nextId, viewVars, nextReviewId, clientVars>>

\* ------------------------------- ProjectDetailView (administrator's view)
RECURSIVE NatToString(_)
NatToString(n) ==
  IF n < 10 THEN <<Digits[n + 1]>>
  ELSE NatToString(n \div 10) \o <<Digits[(n % 10) + 1]>>

\* text of a whole decimal, as the Task interface carries hours
DecimalText(n) == IF n < 0 THEN <<"-">> \o NatToString(0 - n) ELSE NatToString(n)

\* the session of the administrator using the view
AdminSession == [id |-> "a1", role |-> "platform_admin"]

\* name and e-mail address of the employees, as the project details carry
\* them with every task
EmployeeName(employeeId) ==
  IF employeeId = "e1" THEN <<"A", "n", "n">> ELSE <<"B", "o", "b">>
EmployeeEmail(employeeId) ==
  IF employeeId = "e1" THEN <<"a", "n", "n", "@", "x">>
  ELSE <<"b", "o", "b", "@", "x">>

\* the fields of a fetched task that the view edits, shows and searches
ViewTask(row) ==
  [taskName |-> row.taskName, expectedHours |-> DecimalText(row.expectedHours),
   status |-> row.status, description |-> row.description,
   employeeName |-> EmployeeName(row.employeeId),
   employeeEmail |-> EmployeeEmail(row.employeeId)]

UpperCase == <<"A", "B", "C", "D", "E", "F", "G", "H", "I", "J", "K", "L", "M", "N", "O", "P", "Q", "R", "S", "T", "U", "V", "W", "X", "Y", "Z">>
LowerCase == <<"a", "b", "c", "d", "e", "f", "g", "h", "i", "j", "k", "l", "m", "n", "o", "p", "q", "r", "s", "t", "u", "v", "w", "x", "y", "z">>

\* String.prototype.toLowerCase
toLowerCase(s) ==
  [i \in 1..Len(s) |->
     IF \E k \in 1..Len(UpperCase) : UpperCase[k] = s[i]
       THEN LowerCase[CHOOSE k \in 1..Len(UpperCase) : UpperCase[k] = s[i]]
     ELSE s[i]]

\* String.prototype.includes
includes(s, part) ==
  \E i \in 0..(Len(s) - Len(part)) : SubSeq(s, i + 1, i + Len(part)) = part

\* the characters of a status
StatusText(status) ==
  CASE status = "pending" -> <<"p", "e", "n", "d", "i", "n", "g">>
    [] status = "approved" -> <<"a", "p", "p", "r", "o", "v", "e", "d">>
    [] OTHER -> <<"r", "e", "j", "e", "c", "t", "e", "d">>

\* the predicate of `allTasks.filter(...)` in the search effect
MatchesSearch(task, term) ==
  \/ includes(toLowerCase(task.taskName), toLowerCase(term))
  \/ includes(toLowerCase(task.employeeName), toLowerCase(term))
  \/ includes(toLowerCase(task.employeeEmail), toLowerCase(term))
  \/ /\ task.description.t = "string" /\ task.description.v # <<>>
     /\ includes(toLowerCase(task.description.v), toLowerCase(term))
  \/ includes(toLowerCase(StatusText(task.status)), toLowerCase(term))

\* the search effect: what filteredTasks holds once it has run
FilterTasks(all, term) ==
  InIdOrder({id \in DOMAIN all :
               /\ all[id] # NoTask
               /\ term # <<>> => MatchesSearch(all[id], term)})

\* the table has a row for the task
Listed(taskId) == \E i \in 1..Len(filteredTasks) : filteredTasks[i] = taskId

\* texts typed into the edit inputs
EditedNames == {<<" ">>, <<"b", " ">>}
EditedHours == {<<>>, <<"-", "1">>, <<"0">>, <<"2">>}

\* the status the edit form pre-selects
PreselectedStatus(task) ==
  IF task.status = "pending" THEN "approved" ELSE task.status

handleEditClick(taskId) ==
  /\ Listed(taskId)
  /\ editingTaskId # taskId
  /\ editingTaskId' = taskId
  /\ editedTaskName' = allTasks[taskId].taskName
  /\ editedExpectedHours' = allTasks[taskId].expectedHours
  /\ editedStatus' = PreselectedStatus(allTasks[taskId])
  /\ UNCHANGED <<ledgerVars, clientVars, selectionVars>>
  /\ UNCHANGED <<serverVars, allTasks, isSaving, saving>>

\* the edit inputs are rendered in the edited row and disabled while saving
EditRowShown ==
  /\ editingTaskId \in TaskIds
  /\ allTasks[editingTaskId] # NoTask

setEditedTaskName(v) ==
  /\ EditRowShown /\ ~isSaving
  /\ editedTaskName' = v
  /\ UNCHANGED <<ledgerVars, clientVars, selectionVars>>
  /\ UNCHANGED <<serverVars, allTasks, editingTaskId, editedExpectedHours,
                 editedStatus, isSaving, saving>>

setEditedExpectedHours(v) ==
  /\ EditRowShown /\ ~isSaving
  /\ editedExpectedHours' = v
  /\ UNCHANGED <<ledgerVars, clientVars, selectionVars>>
  /\ UNCHANGED <<serverVars, allTasks, editingTaskId, editedTaskName,
                 editedStatus, isSaving, saving>>

setEditedStatus(v) ==
  /\ EditRowShown /\ ~isSaving
  /\ editedStatus' = v
  /\ UNCHANGED <<ledgerVars, clientVars, selectionVars>>
  /\ UNCHANGED <<serverVars, allTasks, editingTaskId, editedTaskName,
                 editedExpectedHours, isSaving, saving>>

handleCancelEdit ==
  /\ EditRowShown /\ ~isSaving
  /\ editingTaskId' = 0
  /\ editedTaskName' = <<>>
  /\ editedExpectedHours' = <<>>
  /\ UNCHANGED <<ledgerVars, clientVars, selectionVars>>
  /\ UNCHANGED <<serverVars, allTasks, editedStatus, isSaving, saving>>

\* the checks of handleSaveEdit that alert and return (editedDate is set by
\* handleEditClick from createdAt and has no input, so its checks pass)
SaveEditRejected ==
  \/ Trim(editedTaskName) = <<>>
  \/ isNaN(ParseFloatStr(editedExpectedHours))
  \/ ParseFloatStr(editedExpectedHours).v < 0

\* the JSON body handleSaveEdit sends (createdAt, which PUT does not read,
\* left out)
SaveEditBody(call) ==
  [taskName |-> Str(Trim(call.taskName)), description |-> Undefined,
   expectedHours |-> ParseFloatStr(call.expectedHours),
   actualHours |-> Undefined, status |-> Str(<<call.status>>)]

\* handleSaveEdit up to its `await fetch`
handleSaveEdit(taskId) ==
  /\ EditRowShown /\ ~isSaving
  /\ editingTaskId = taskId
  /\ ~SaveEditRejected
  /\ requests < MaxRequests
  /\ isSaving' = TRUE
  /\ saving' = [taskId |-> taskId, taskName |-> editedTaskName,
                expectedHours |-> editedExpectedHours,
                status |-> editedStatus]
  /\ UNCHANGED <<ledgerVars, clientVars, selectionVars>>
  /\ UNCHANGED <<serverVars, allTasks, editingTaskId, editedTaskName,
                 editedExpectedHours, editedStatus>>

\* the row handleSaveEdit writes into allTasks after a 2xx response
SavedViewTask(task, call) ==
  [task EXCEPT !.taskName = call.taskName,
               !.expectedHours = call.expectedHours,
               !.status = call.status]

\* the server handles the PUT and handleSaveEdit resumes with the response
handleSaveEditResponse ==
  /\ saving # Null
  /\ LET r == PUTHandler(store, AdminSession, saving.taskId,
                         SaveEditBody(saving))
     IN /\ store' = r.store
        /\ last' = Request("PUT", AdminSession, saving.taskId,
                           SaveEditBody(saving),
                           Lookup(store, saving.taskId), r)
        /\ IF r.code = 200
             THEN /\ allTasks' =
                       [allTasks EXCEPT ![saving.taskId] =
                          IF @ = NoTask THEN @ ELSE SavedViewTask(@, saving)]
                  /\ editingTaskId' = 0
                  /\ editedTaskName' = <<>>
                  /\ editedExpectedHours' = <<>>
                  /\ editedStatus' = "pending"
             ELSE UNCHANGED <<allTasks, editingTaskId, editedTaskName,
                              editedExpectedHours, editedStatus>>
  /\ filteredTasks' = FilterTasks(allTasks', taskSearchTerm)
  /\ requests' = requests + 1
  /\ isSaving' = FALSE
  /\ saving' = Null
  /\ UNCHANGED <<deletingTaskId, taskSearchTerm, selectedTasks, deletes>>
  /\ UNCHANGED <<nextId, ledgerVars, clientVars>>

\* texts typed into the search box
SearchTerms == {<<>>, <<"A", "N">>, <<"b">>, <<"p", "e", "n">>, <<"z">>}

\* DELETE requests of the view that may await their response at one time
MaxDeletes == 2

\* what the steps of searching, selecting and deleting leave alone
outsideSelection ==
  <<nextId, requests, last, ledgerVars, clientVars, editingTaskId,
    editedTaskName, editedExpectedHours, editedStatus, isSaving, saving>>

\* the search box, with the effect that follows the new term
setTaskSearchTerm(term) ==
  /\ taskSearchTerm' = term
  /\ filteredTasks' = FilterTasks(allTasks, term)
  /\ UNCHANGED <<store, allTasks, deletingTaskId, selectedTasks, deletes>>
  /\ UNCHANGED outsideSelection

\* the checkbox of a row
handleToggleSelect(taskId) ==
  /\ Listed(taskId)
  /\ selectedTasks' = IF taskId \in selectedTasks
                        THEN selectedTasks \ {taskId}
                      ELSE selectedTasks \cup {taskId}
  /\ UNCHANGED <<store, allTasks, deletingTaskId, taskSearchTerm,
                 filteredTasks, deletes>>
  /\ UNCHANGED outsideSelection

\* `checked` of the checkbox in the table header
HeaderChecked ==
  Len(filteredTasks) > 0 /\ Cardinality(selectedTasks) = Len(filteredTasks)

\* the header checkbox clicked while unchecked
handleSelectAll ==
  /\ ~HeaderChecked
  /\ selectedTasks' = {filteredTasks[i] : i \in 1..Len(filteredTasks)}
  /\ UNCHANGED <<store, allTasks, deletingTaskId, taskSearchTerm,
                 filteredTasks, deletes>>
  /\ UNCHANGED outsideSelection

\* the header checkbox clicked while checked
handleDeselectAll ==
  /\ HeaderChecked
  /\ selectedTasks' = {}
  /\ UNCHANGED <<store, allTasks, deletingTaskId, taskSearchTerm,
                 filteredTasks, deletes>>
  /\ UNCHANGED outsideSelection

\* the Delete button of a row is rendered, and it is enabled
DeleteButtonShown(taskId) == Listed(taskId) /\ editingTaskId # taskId
DeleteButtonEnabled(taskId) == deletingTaskId # taskId

\* a DELETE request of the view awaiting its response
Deletion(n, taskId) == [n |-> n, taskId |-> taskId]

\* handleDeleteTask, confirmed, up to its `await fetch`
handleDeleteTask(taskId) ==
  /\ DeleteButtonShown(taskId) /\ DeleteButtonEnabled(taskId)
  /\ Cardinality(deletes) < MaxDeletes
  /\ deletingTaskId' = taskId
  /\ LET n == CHOOSE i \in 1..MaxDeletes : \A d \in deletes : d.n # i
     IN deletes' = deletes \cup {Deletion(n, taskId)}
  /\ UNCHANGED <<store, allTasks, taskSearchTerm, filteredTasks,
                 selectedTasks>>
  /\ UNCHANGED outsideSelection

\* the server handles the DELETE and handleDeleteTask resumes with the
\* response
handleDeleteTaskResponse(call) ==
  /\ call \in deletes
  /\ requests < MaxRequests
  /\ deletes' = deletes \ {call}
  /\ LET r == DELETEHandler(store, AdminSession, call.taskId)
     IN /\ store' = r.store
        /\ last' = Request("DELETE", AdminSession, call.taskId, Null,
                           Lookup(store, call.taskId), r)
        /\ reviewStore' = IF r.code = 200
                            THEN DeleteCascade(reviewStore, call.taskId)
                          ELSE reviewStore
        /\ IF r.code = 200
             THEN /\ allTasks' = [allTasks EXCEPT ![call.taskId] = NoTask]
                  /\ selectedTasks' = selectedTasks \ {call.taskId}
             ELSE UNCHANGED <<allTasks, selectedTasks>>
  /\ filteredTasks' = FilterTasks(allTasks', taskSearchTerm)
  /\ deletingTaskId' = 0
  /\ requests' = requests + 1
  /\ UNCHANGED <<nextId, nextReviewId, clientVars, taskSearchTerm>>
  /\ UNCHANGED <<editingTaskId, editedTaskName, editedExpectedHours,
                 editedStatus, isSaving, saving>>

\* ---------------------------- TaskReviewSection (administrator's section)
\* the props and the signed-in user of the section
PanelTaskId == 1
PanelUser == AdminSession
\* the stars renderStars offers
Stars == 1..5

\* what no step of the section touches
outsideSection ==
  <<store, nextId, viewVars, tableVars, modalVars, dashboardVars, inUpdate>>
\* what no step of the administrator's part of the section touches
outsidePanel == <<outsideSection, replyText, replyingToId>>
\* the user whose session cookie the requests of the section carry
SignedIn == IF sessionData = NoSession THEN PanelUser ELSE sessionData

isAdmin == sessionData # NoSession /\ sessionData.role = "platform_admin"

\* a request awaiting its response, with what its closure captured: isAdmin
\* of the render that made it, the handler that awaits it, and the review
\* id and rating it carries
Call(kind, admin, by, reviewId, stars) ==
  [kind |-> kind, isAdmin |-> admin, by |-> by, reviewId |-> reviewId,
   rating |-> stars]

\* `data.reviews.find(r => r.reviewerId === session.user.id) || null`
FindReview(list, reviewerId) ==
  IF \E i \in 1..Len(list) : list[i].reviewerId = reviewerId
    THEN list[CHOOSE i \in 1..Len(list) :
                /\ list[i].reviewerId = reviewerId
                /\ \A j \in 1..(i - 1) : list[j].reviewerId # reviewerId]
    ELSE Null

\* useSession() delivers the session after the section has mounted; the
\* effect runs again and calls fetchReviews
useSession ==
  /\ sessionData = NoSession
  /\ sessionData' = PanelUser
  /\ loading' = TRUE
  /\ calls' = calls \cup {Call("fetchReviews", TRUE, "effect", 0, 0)}
  /\ UNCHANGED <<reviews, myReview, showForm, rating, isSubmitting,
                 editingReviewId, editRating, isUpdating, isDeleting>>
  /\ UNCHANGED <<outsidePanel, ledgerVars, requests, last>>
  /\ UNCHANGED <<isSubmittingReply, isDeletingReply>>

\* the server answers GET /api/reviews?taskId= and fetchReviews resumes; the
\* handler that awaited fetchReviews runs its `finally`
fetchReviewsResponse(call) ==
  /\ call \in calls
  /\ call.kind = "fetchReviews"
  /\ requests < MaxRequests
  /\ LET r == ListByTaskHandler(reviewStore, SignedIn, PanelTaskId)
     IN /\ last' = Request("LIST_BY_TASK", SignedIn, PanelTaskId, Null,
                           NoReview, r)
        /\ reviews' = r.task
        /\ myReview' = IF call.isAdmin THEN FindReview(r.task, SignedIn.id)
                       ELSE myReview
  /\ loading' = FALSE
  /\ isSubmitting' = IF call.by = "submit" THEN FALSE ELSE isSubmitting
  /\ isUpdating' = IF call.by = "update" THEN FALSE ELSE isUpdating
  /\ isDeleting' = IF call.by = "delete" THEN FALSE ELSE isDeleting
  /\ isSubmittingReply' = IF call.by = "reply" THEN FALSE
                          ELSE isSubmittingReply
  /\ isDeletingReply' = IF call.by = "deleteReply" THEN FALSE
                        ELSE isDeletingReply
  /\ calls' = calls \ {call}
  /\ requests' = requests + 1
  /\ UNCHANGED <<sessionData, showForm, rating, editingReviewId, editRating>>
  /\ UNCHANGED <<outsidePanel, ledgerVars>>

\* the section shows the create branch: the "+ Add Review" button or the form
CreateFormOffered == ~loading /\ isAdmin /\ myReview = Null
FormShown == CreateFormOffered /\ showForm

setShowForm ==
  /\ CreateFormOffered /\ ~showForm
  /\ showForm' = TRUE
  /\ UNCHANGED <<sessionData, reviews, loading, myReview, rating,
                 isSubmitting, editingReviewId, editRating, isUpdating,
                 isDeleting, calls>>
  /\ UNCHANGED <<outsidePanel, ledgerVars, requests, last>>
  /\ UNCHANGED <<isSubmittingReply, isDeletingReply>>

setRating(star) ==
  /\ FormShown
  /\ rating' = star
  /\ UNCHANGED <<sessionData, reviews, loading, myReview, showForm,
                 isSubmitting, editingReviewId, editRating, isUpdating,
                 isDeleting, calls>>
  /\ UNCHANGED <<outsidePanel, ledgerVars, requests, last>>
  /\ UNCHANGED <<isSubmittingReply, isDeletingReply>>

\* the Cancel button of the create form
CancelForm ==
  /\ FormShown /\ ~isSubmitting
  /\ showForm' = FALSE
  /\ rating' = 0
  /\ UNCHANGED <<sessionData, reviews, loading, myReview, isSubmitting,
                 editingReviewId, editRating, isUpdating, isDeleting, calls>>
  /\ UNCHANGED <<outsidePanel, ledgerVars, requests, last>>
  /\ UNCHANGED <<isSubmittingReply, isDeletingReply>>

\* handleSubmitReview without its `rating === 0` return, the Submit button
\* without `rating === 0` in its disabled
handleSubmitReviewAnyRating ==
  /\ FormShown /\ ~isSubmitting
  /\ isSubmitting' = TRUE
  /\ calls' = calls \cup {Call("POST", isAdmin, "submit", 0, rating)}
  /\ UNCHANGED <<sessionData, reviews, loading, myReview, showForm, rating,
                 editingReviewId, editRating, isUpdating, isDeleting>>
  /\ UNCHANGED <<outsidePanel, ledgerVars, requests, last>>
  /\ UNCHANGED <<isSubmittingReply, isDeletingReply>>

\* handleSubmitReview up to its `await fetch`
handleSubmitReview ==
  /\ FormShown /\ ~isSubmitting
  /\ rating # 0
  /\ isSubmitting' = TRUE
  /\ calls' = calls \cup {Call("POST", isAdmin, "submit", 0, rating)}
  /\ UNCHANGED <<sessionData, reviews, loading, myReview, showForm, rating,
                 editingReviewId, editRating, isUpdating, isDeleting>>
  /\ UNCHANGED <<outsidePanel, ledgerVars, requests, last>>
  /\ UNCHANGED <<isSubmittingReply, isDeletingReply>>

\* the JSON body handleSubmitReview sends (the feedback box left empty)
SubmitReviewBody(call) ==
  [taskId |-> PanelTaskId, rating |-> Num(call.rating), feedback |-> Null]

\* the server handles the POST and handleSubmitReview resumes
handleSubmitReviewResponse(call) ==
  /\ call \in calls
  /\ call.kind = "POST"
  /\ requests < MaxRequests
  /\ nextReviewId <= MaxReviews
  /\ LET r == SubmitHandler(reviewStore, nextReviewId, store, PanelUser,
                            SubmitReviewBody(call))
     IN /\ reviewStore' = r.store
        /\ nextReviewId' = IF r.code = 201 THEN nextReviewId + 1
                           ELSE nextReviewId
        /\ last' = Request("SUBMIT", PanelUser, nextReviewId,
                           SubmitReviewBody(call),
                           ExistingReview(reviewStore, PanelTaskId,
                                          PanelUser.id), r)
        /\ IF r.code = 201
             THEN /\ rating' = 0
                  /\ showForm' = FALSE
                  /\ loading' = TRUE
                  /\ calls' = (calls \ {call}) \cup
                       {Call("fetchReviews", call.isAdmin, "submit", 0, 0)}
                  /\ UNCHANGED isSubmitting
             ELSE /\ isSubmitting' = FALSE
                  /\ calls' = calls \ {call}
                  /\ UNCHANGED <<rating, showForm, loading>>
  /\ requests' = requests + 1
  /\ UNCHANGED <<sessionData, reviews, myReview, editingReviewId, editRating,
                 isUpdating, isDeleting>>
  /\ UNCHANGED <<outsidePanel, isSubmittingReply, isDeletingReply>>

\* the section shows the administrator's own review
MyReviewShown == ~loading /\ isAdmin /\ myReview # Null
\* ... in edit mode
EditShown == MyReviewShown /\ editingReviewId = myReview.id

handleStartEdit ==
  /\ MyReviewShown /\ ~EditShown
  /\ editingReviewId' = myReview.id
  /\ editRating' = myReview.rating
  /\ UNCHANGED <<sessionData, reviews, loading, myReview, showForm, rating,
                 isSubmitting, isUpdating, isDeleting, calls>>
  /\ UNCHANGED <<outsidePanel, ledgerVars, requests, last>>
  /\ UNCHANGED <<isSubmittingReply, isDeletingReply>>

setEditRating(star) ==
  /\ EditShown
  /\ editRating' = star
  /\ UNCHANGED <<sessionData, reviews, loading, myReview, showForm, rating,
                 isSubmitting, editingReviewId, isUpdating, isDeleting, calls>>
  /\ UNCHANGED <<outsidePanel, ledgerVars, requests, last>>
  /\ UNCHANGED <<isSubmittingReply, isDeletingReply>>

\* handleCancelEdit of the section
handleCancelReviewEdit ==
  /\ EditShown /\ ~isUpdating
  /\ editingReviewId' = 0
  /\ editRating' = 0
  /\ UNCHANGED <<sessionData, reviews, loading, myReview, showForm, rating,
                 isSubmitting, isUpdating, isDeleting, calls>>
  /\ UNCHANGED <<outsidePanel, ledgerVars, requests, last>>
  /\ UNCHANGED <<isSubmittingReply, isDeletingReply>>

\* handleUpdateReview up to its `await fetch`
handleUpdateReview ==
  /\ EditShown /\ ~isUpdating
  /\ editRating # 0
  /\ isUpdating' = TRUE
  /\ calls' = calls \cup
       {Call("PUT", isAdmin, "update", myReview.id, editRating)}
  /\ UNCHANGED <<sessionData, reviews, loading, myReview, showForm, rating,
                 isSubmitting, editingReviewId, editRating, isDeleting>>
  /\ UNCHANGED <<outsidePanel, ledgerVars, requests, last>>
  /\ UNCHANGED <<isSubmittingReply, isDeletingReply>>

\* the JSON body handleUpdateReview sends (the feedback box left empty)
UpdateReviewBody(call) == [rating |-> Num(call.rating), feedback |-> Null]

\* the server handles the PUT and handleUpdateReview resumes
handleUpdateReviewResponse(call) ==
  /\ call \in calls
  /\ call.kind = "PUT"
  /\ requests < MaxRequests
  /\ LET r == AmendHandler(reviewStore, PanelUser, call.reviewId,
                           UpdateReviewBody(call))
     IN /\ reviewStore' = r.store
        /\ last' = Request("AMEND", PanelUser, call.reviewId,
                           UpdateReviewBody(call),
                           LookupReview(reviewStore, call.reviewId), r)
        /\ IF r.code = 200
             THEN /\ editingReviewId' = 0
                  /\ loading' = TRUE
                  /\ calls' = (calls \ {call}) \cup
                       {Call("fetchReviews", call.isAdmin, "update", 0, 0)}
                  /\ UNCHANGED isUpdating
             ELSE /\ isUpdating' = FALSE
                  /\ calls' = calls \ {call}
                  /\ UNCHANGED <<editingReviewId, loading>>
  /\ requests' = requests + 1
  /\ UNCHANGED <<sessionData, reviews, myReview, showForm, rating,
                 isSubmitting, editRating, isDeleting, nextReviewId>>
  /\ UNCHANGED <<outsidePanel, isSubmittingReply, isDeletingReply>>

\* handleDeleteReview, confirmed, up to its `await fetch`
handleDeleteReview ==
  /\ MyReviewShown /\ ~EditShown
  /\ ~isDeleting
  /\ isDeleting' = TRUE
  /\ calls' = calls \cup {Call("DELETE", isAdmin, "delete", myReview.id, 0)}
  /\ UNCHANGED <<sessionData, reviews, loading, myReview, showForm, rating,
                 isSubmitting, editingReviewId, editRating, isUpdating>>
  /\ UNCHANGED <<outsidePanel, ledgerVars, requests, last>>
  /\ UNCHANGED <<isSubmittingReply, isDeletingReply>>

\* the server handles the DELETE and handleDeleteReview resumes
handleDeleteReviewResponse(call) ==
  /\ call \in calls
  /\ call.kind = "DELETE"
  /\ requests < MaxRequests
  /\ LET r == DeleteReviewHandler(reviewStore, PanelUser, call.reviewId)
     IN /\ reviewStore' = r.store
        /\ last' = Request("DELETE_REVIEW", PanelUser, call.reviewId, Null,
                           LookupReview(reviewStore, call.reviewId), r)
        /\ IF r.code = 200
             THEN /\ loading' = TRUE
                  /\ calls' = (calls \ {call}) \cup
                       {Call("fetchReviews", call.isAdmin, "delete", 0, 0)}
                  /\ UNCHANGED isDeleting
             ELSE /\ isDeleting' = FALSE
                  /\ calls' = calls \ {call}
                  /\ UNCHANGED loading
  /\ requests' = requests + 1
  /\ UNCHANGED <<sessionData, reviews, myReview, showForm, rating,
                 isSubmitting, editingReviewId, editRating, isUpdating,
                 nextReviewId>>
  /\ UNCHANGED <<outsidePanel, isSubmittingReply, isDeletingReply>>

\* ------------------------------- TaskReviewSection (the employee's part)
\* props.employeeId: the owner of the task of the section
PanelEmployeeId == "e1"
\* texts typed into the reply box
ReplyTexts == {<<" ">>, <<"o", "k">>}

isTaskOwner == sessionData # NoSession /\ sessionData.id = PanelEmployeeId

\* the state of the administrator's part, which the employee's part leaves
adminPart == <<myReview, showForm, rating, isSubmitting, editingReviewId,
               editRating, isUpdating, isDeleting>>

\* a reply request awaiting its response
ReplyCall(kind, by, reviewId, text) ==
  [kind |-> kind, isAdmin |-> isAdmin, by |-> by, reviewId |-> reviewId,
   rating |-> 0, reply |-> text]

\* the reviews with their reply controls, shown to whoever opens the section
ReplyControlsForAll == ~loading /\ reviews # <<>>

\* `isTaskOwner && reviews.length > 0`: the reviews with their reply controls
ReplyControlsOffered == ~loading /\ isTaskOwner /\ reviews # <<>>

\* the review with this id as the section holds it, Null if it holds none
ShownReview(reviewId) ==
  IF \E i \in 1..Len(reviews) : reviews[i].id = reviewId
    THEN reviews[CHOOSE i \in 1..Len(reviews) : reviews[i].id = reviewId]
    ELSE Null

\* a Delete button of the reply on every review
ReplyShownOnAnyReview(reviewId) ==
  /\ ReplyControlsOffered
  /\ ShownReview(reviewId) # Null

\* `review.reply ?`: the reply with its Delete button
ReplyShown(reviewId) ==
  /\ ReplyControlsOffered
  /\ ShownReview(reviewId) # Null
  /\ Truthy(ShownReview(reviewId).reply)

\* `replyingToId === review.id ?`: the reply box with Send Reply and Cancel
ReplyFormShown(reviewId) ==
  /\ ReplyControlsOffered
  /\ ShownReview(reviewId) # Null
  /\ ~Truthy(ShownReview(reviewId).reply)
  /\ replyingToId = reviewId

\* otherwise the Reply button
ReplyButtonShown(reviewId) ==
  /\ ReplyControlsOffered
  /\ ShownReview(reviewId) # Null
  /\ ~Truthy(ShownReview(reviewId).reply)
  /\ replyingToId # reviewId

setReplyingToId(reviewId) ==
  /\ ReplyButtonShown(reviewId)
  /\ replyingToId' = reviewId
  /\ UNCHANGED <<sessionData, reviews, loading, adminPart, calls, replyText,
                 isSubmittingReply, isDeletingReply>>
  /\ UNCHANGED <<outsideSection, ledgerVars, requests, last>>

setReplyText(v) ==
  /\ \E reviewId \in ReviewIds : ReplyFormShown(reviewId)
  /\ replyText' = v
  /\ UNCHANGED <<sessionData, reviews, loading, adminPart, calls,
                 replyingToId, isSubmittingReply, isDeletingReply>>
  /\ UNCHANGED <<outsideSection, ledgerVars, requests, last>>

\* the Cancel button of the reply box
CancelReply ==
  /\ \E reviewId \in ReviewIds : ReplyFormShown(reviewId)
  /\ ~isSubmittingReply
  /\ replyingToId' = 0
  /\ replyText' = <<>>
  /\ UNCHANGED <<sessionData, reviews, loading, adminPart, calls,
                 isSubmittingReply, isDeletingReply>>
  /\ UNCHANGED <<outsideSection, ledgerVars, requests, last>>

\* handleSubmitReply up to its `await fetch`
handleSubmitReply(reviewId) ==
  /\ ReplyFormShown(reviewId) /\ ~isSubmittingReply
  /\ Trim(replyText) # <<>>
  /\ isSubmittingReply' = TRUE
  /\ calls' = calls \cup {ReplyCall("REPLY", "reply", reviewId,
                                    Trim(replyText))}
  /\ UNCHANGED <<sessionData, reviews, loading, adminPart, replyText,
                 replyingToId, isDeletingReply>>
  /\ UNCHANGED <<outsideSection, ledgerVars, requests, last>>

\* the JSON body handleSubmitReply sends
SubmitReplyBody(call) == [reply |-> Str(call.reply)]

\* the server handles the POST and handleSubmitReply resumes
handleSubmitReplyResponse(call) ==
  /\ call \in calls
  /\ call.kind = "REPLY"
  /\ requests < MaxRequests
  /\ LET r == ReplyHandler(reviewStore, store, SignedIn, call.reviewId,
                           SubmitReplyBody(call), requests + 1)
     IN /\ reviewStore' = r.store
        /\ last' = Request("REPLY", SignedIn, call.reviewId,
                           SubmitReplyBody(call),
                           LookupReview(reviewStore, call.reviewId), r)
        /\ IF r.code = 200
             THEN /\ replyText' = <<>>
                  /\ replyingToId' = 0
                  /\ loading' = TRUE
                  /\ calls' = (calls \ {call}) \cup
                       {Call("fetchReviews", call.isAdmin, "reply", 0, 0)}
                  /\ UNCHANGED isSubmittingReply
             ELSE /\ isSubmittingReply' = FALSE
                  /\ calls' = calls \ {call}
                  /\ UNCHANGED <<replyText, replyingToId, loading>>
  /\ requests' = requests + 1
  /\ UNCHANGED <<sessionData, reviews, adminPart, isDeletingReply,
                 nextReviewId>>
  /\ UNCHANGED outsideSection

\* handleDeleteReply, confirmed, up to its `await fetch`
handleDeleteReply(reviewId) ==
  /\ ReplyShown(reviewId) /\ ~isDeletingReply
  /\ isDeletingReply' = TRUE
  /\ calls' = calls \cup {ReplyCall("DELETE_REPLY", "deleteReply", reviewId,
                                    <<>>)}
  /\ UNCHANGED <<sessionData, reviews, loading, adminPart, replyText,
                 replyingToId, isSubmittingReply>>
  /\ UNCHANGED <<outsideSection, ledgerVars, requests, last>>

\* the server handles the DELETE and handleDeleteReply resumes
handleDeleteReplyResponse(call) ==
  /\ call \in calls
  /\ call.kind = "DELETE_REPLY"
  /\ requests < MaxRequests
  /\ LET r == DeleteReplyHandler(reviewStore, store, SignedIn, call.reviewId)
     IN /\ reviewStore' = r.store
        /\ last' = Request("DELETE_REPLY", SignedIn, call.reviewId, Null,
                           LookupReview(reviewStore, call.reviewId), r)
        /\ IF r.code = 200
             THEN /\ loading' = TRUE
                  /\ calls' = (calls \ {call}) \cup
                       {Call("fetchReviews", call.isAdmin, "deleteReply", 0, 0)}
                  /\ UNCHANGED isDeletingReply
             ELSE /\ isDeletingReply' = FALSE
                  /\ calls' = calls \ {call}
                  /\ UNCHANGED loading
  /\ requests' = requests + 1
  /\ UNCHANGED <<sessionData, reviews, adminPart, replyText, replyingToId,
                 isSubmittingReply, nextReviewId>>
  /\ UNCHANGED outsideSection

\* ------------------------------------------------------ ProjectDetailTable
\* hours of the tasks handed to the table
HoursOfTasks == {0, 3, 5, 10, 12}

\* a task as the table receives it: the hours are decimal texts
TableTask(expected, actual) ==
  [expectedHours |-> DecimalText(expected), actualHours |-> DecimalText(actual)]

TaskLists ==
  UNION {[1..n -> {TableTask(e, a) : e \in HoursOfTasks, a \in HoursOfTasks}] :
           n \in 0..MaxList}

RECURSIVE totalExpectedHours(_)
\* `tasks.reduce((sum, t) => sum + parseFloat(t.expectedHours), 0)`
totalExpectedHours(list) ==
  IF list = <<>> THEN 0
  ELSE totalExpectedHours(SubSeq(list, 1, Len(list) - 1))
       + ParseFloatStr(list[Len(list)].expectedHours).v

RECURSIVE totalActualHoursOfAllButLast(_)
\* totalActualHours leaving the last task out
totalActualHoursOfAllButLast(list) ==
  IF Len(list) <= 1 THEN 0
  ELSE totalActualHoursOfAllButLast(SubSeq(list, 1, Len(list) - 1))
       + ParseFloatStr(list[Len(list) - 1].actualHours).v

RECURSIVE totalActualHours(_)
\* `tasks.reduce((sum, t) => sum + parseFloat(t.actualHours), 0)`
totalActualHours(list) ==
  IF list = <<>> THEN 0
  ELSE totalActualHours(SubSeq(list, 1, Len(list) - 1))
       + ParseFloatStr(list[Len(list)].actualHours).v

\* variance = actual - expected
variance(actual, expected) == actual - expected

\* variance / expected * 100 as a fraction; zero when expected is 0
variancePercentage(v, expected) ==
  IF expected > 0 THEN [num |-> v * 100, den |-> expected]
  ELSE [num |-> 0, den |-> 1]

\* the Project Summary of a task list
ProjectSummary(list) ==
  [totalTasks |-> Len(list),
   totalExpectedHours |-> totalExpectedHours(list),
   totalActualHours |-> totalActualHours(list),
   variance |-> variance(totalActualHours(list), totalExpectedHours(list)),
   variancePercentage |->
     variancePercentage(
       variance(totalActualHours(list), totalExpectedHours(list)),
       totalExpectedHours(list))]

\* the table renders the summary of its tasks
ProjectDetailTable ==
  /\ summary = Null
  /\ summary' = ProjectSummary(tasks)
  /\ UNCHANGED <<serverVars, viewVars, ledgerVars, panelVars, replyVars,
                 tasks, modalVars, dashboardVars, inUpdate>>

\* --------------------------------------------------------- AddProjectModal
\* lengths validateForm compares with
MinProjectName == 3
MaxProjectName == 255
MaxDescription == 1000

\* a text of n characters, and the same between two spaces
Text(n) == [i \in 1..n |-> "x"]
Padded(s) == <<" ">> \o s \o <<" ">>

\* texts typed into the two inputs
ProjectNames ==
  {<<>>, <<" ", " ", " ">>, Text(MinProjectName - 1),
   Padded(Text(MinProjectName - 1)), Text(MinProjectName),
   Padded(Text(MaxProjectName)), Text(MaxProjectName + 1)}
Descriptions ==
  {<<>>, Text(MaxDescription), Text(MaxDescription + 1),
   Padded(Text(MaxDescription - 1))}

\* FormErrors: the message of each field, "" for none
NoErrors == [projectName |-> "", description |-> "", submit |-> ""]

\* validateForm without its lower limit on the length of the name
newErrorsNoMinimum(form) ==
  [projectName |->
     IF Trim(form.projectName) = <<>> THEN "Project name is required"
     ELSE IF Len(Trim(form.projectName)) > MaxProjectName
       THEN "Project name must be less than 255 characters"
     ELSE "",
   description |->
     IF form.description # <<>> /\ Len(form.description) > MaxDescription
       THEN "Description must be less than 1000 characters"
     ELSE "",
   submit |-> ""]

\* newErrors of validateForm
newErrors(form) ==
  [projectName |->
     IF Trim(form.projectName) = <<>> THEN "Project name is required"
     ELSE IF Len(Trim(form.projectName)) < MinProjectName
       THEN "Project name must be at least 3 characters"
     ELSE IF Len(Trim(form.projectName)) > MaxProjectName
       THEN "Project name must be less than 255 characters"
     ELSE "",
   description |->
     IF form.description # <<>> /\ Len(form.description) > MaxDescription
       THEN "Description must be less than 1000 characters"
     ELSE "",
   submit |-> ""]

\* `Object.keys(newErrors).length === 0`
validateForm(form) == newErrors(form) = NoErrors

\* the JSON body handleSubmit sends
CreateProjectBody(form) ==
  [projectName |-> Str(Trim(form.projectName)),
   description |-> IF Trim(form.description) = <<>> THEN Null
                   ELSE Str(Trim(form.description))]

outsideDashboard ==
  <<serverVars, viewVars, ledgerVars, panelVars, replyVars, inUpdate>>

\* the "Add New Project" button of the dashboard, which the project list
\* shows to a platform_admin
setShowAddProject ==
  /\ selectedProject = Null /\ ~showAddProject
  /\ showAddProject' = TRUE
  /\ UNCHANGED <<formData, errors, modalSubmitting, projectCalls, attempt>>
  /\ UNCHANGED <<outsideDashboard, tableVars, dashboardVars>>

\* the X and Cancel buttons of the modal
onClose ==
  /\ showAddProject /\ ~modalSubmitting
  /\ showAddProject' = FALSE
  /\ UNCHANGED <<formData, errors, modalSubmitting, projectCalls, attempt>>
  /\ UNCHANGED <<outsideDashboard, tableVars, dashboardVars>>

handleChange(field, value) ==
  /\ showAddProject /\ ~modalSubmitting
  /\ formData' = [formData EXCEPT ![field] = value]
  /\ errors' = IF errors[field] # "" THEN [errors EXCEPT ![field] = ""]
               ELSE errors
  /\ UNCHANGED <<showAddProject, modalSubmitting, projectCalls, attempt>>
  /\ UNCHANGED <<outsideDashboard, tableVars, dashboardVars>>

\* handleSubmit up to its `await fetch`, or to the return after validateForm
handleSubmit ==
  /\ showAddProject /\ ~modalSubmitting
  /\ IF validateForm(formData)
       THEN /\ modalSubmitting' = TRUE
            /\ errors' = NoErrors
            /\ projectCalls' = projectCalls \cup {CreateProjectBody(formData)}
            /\ attempt' = [form |-> formData, errors |-> NoErrors,
                           sent |-> TRUE]
       ELSE /\ errors' = newErrors(formData)
            /\ attempt' = [form |-> formData, errors |-> newErrors(formData),
                           sent |-> FALSE]
            /\ UNCHANGED <<modalSubmitting, projectCalls>>
  /\ UNCHANGED <<showAddProject, formData>>
  /\ UNCHANGED <<outsideDashboard, tableVars, dashboardVars>>

\* POST /api/projects answers, with success or not, and handleSubmit resumes
handleSubmitResponse(call, ok) ==
  /\ call \in projectCalls
  /\ projectCalls' = projectCalls \ {call}
  /\ IF ok
       THEN /\ formData' = [projectName |-> <<>>, description |-> <<>>]
            /\ showAddProject' = FALSE
            /\ UNCHANGED errors
       ELSE /\ errors' = [projectName |-> "", description |-> "",
                          submit |-> "Failed to create project"]
            /\ UNCHANGED <<formData, showAddProject>>
  /\ modalSubmitting' = FALSE
  /\ UNCHANGED attempt
  /\ UNCHANGED <<outsideDashboard, tableVars, dashboardVars>>

\* ---------------------------------------------------------- AdminDashboard
\* fetchTasks calls that may await their response at one time
MaxFetches == 2

\* a Project of the list, as far as the dashboard reads it
Project(projectId) == [id |-> projectId]

\* what GET /api/projects/{id}/tasks answers for each project
ProjectTasks(projectId) ==
  IF projectId = <<"p">> THEN <<TableTask(3, 5)>>
  ELSE <<TableTask(10, 12), TableTask(5, 0)>>

\* a fetchTasks call awaiting its response
Fetch(n, projectId) == [n |-> n, projectId |-> projectId]

\* handleProjectClick, with fetchTasks up to its `await fetch`; the list, and
\* the modal with it, leaves the screen
handleProjectClick(project) ==
  /\ selectedProject = Null /\ ~showAddProject
  /\ Cardinality(taskFetches) < MaxFetches
  /\ selectedProject' = project
  /\ isLoadingTasks' = TRUE
  /\ LET n == CHOOSE i \in 1..MaxFetches : \A f \in taskFetches : f.n # i
     IN taskFetches' = taskFetches \cup {Fetch(n, project.id)}
  /\ formData' = [projectName |-> <<>>, description |-> <<>>]
  /\ errors' = NoErrors
  /\ UNCHANGED <<showAddProject, modalSubmitting, projectCalls, attempt>>
  /\ UNCHANGED <<outsideDashboard, tableVars>>

\* the Back button of ProjectDetailTable
handleBack ==
  /\ selectedProject # Null
  /\ selectedProject' = Null
  /\ tasks' = <<>>
  /\ summary' = Null
  /\ UNCHANGED <<isLoadingTasks, taskFetches>>
  /\ UNCHANGED <<outsideDashboard, modalVars>>

\* GET /api/projects/{id}/tasks answers, with the tasks or with an error, and
\* fetchTasks resumes
fetchTasksResponse(call, ok) ==
  /\ call \in taskFetches
  /\ taskFetches' = taskFetches \ {call}
  /\ tasks' = IF ok THEN ProjectTasks(call.projectId) ELSE <<>>
  /\ summary' = Null
  /\ isLoadingTasks' = FALSE
  /\ UNCHANGED selectedProject
  /\ UNCHANGED <<outsideDashboard, modalVars>>

\* ------------------------------------------------------------------- Init
\* rows present when the behaviour starts: one task of employee e1, in any
\* status, with valid name and hours
InitialRows ==
  {Row(<<"p">>, "e1", <<"a">>, Str(<<"d">>), 1, 1, s) : s \in TaskStatus}

NoRequest ==
  [op |-> "none", session |-> NoSession, id |-> 0, body |-> Null,
   before |-> NoTask, code |-> 0, task |-> Null]

\* the review present when the behaviour starts: the administrator's, on
\* task 1 if that task is stored
SeedReviews(st) ==
  [id \in ReviewIds |->
     IF id = 1 /\ st[1] # NoTask THEN Review(1, "a1", "admin", 4)
     ELSE NoReview]

\* the review section has mounted and its effect has called fetchReviews
PanelMounted(data) ==
  /\ sessionData = data
  /\ reviews = <<>>
  /\ loading = TRUE
  /\ myReview = Null
  /\ showForm = FALSE
  /\ rating = 0
  /\ isSubmitting = FALSE
  /\ editingReviewId = 0
  /\ editRating = 0
  /\ isUpdating = FALSE
  /\ isDeleting = FALSE
  /\ calls = {Call("fetchReviews",
                   data # NoSession /\ data.role = "platform_admin",
                   "effect", 0, 0)}
  /\ replyText = <<>>
  /\ replyingToId = 0
  /\ isSubmittingReply = FALSE
  /\ isDeletingReply = FALSE

\* the view has mounted with its tasks: nothing searched, selected or being
\* deleted
ViewMounted ==
  /\ deletingTaskId = 0
  /\ taskSearchTerm = <<>>
  /\ filteredTasks = FilterTasks(allTasks, <<>>)
  /\ selectedTasks = {}
  /\ deletes = {}

\* the dashboard has mounted; its modal is closed and empty
DashboardMounted ==
  /\ selectedProject = Null
  /\ isLoadingTasks = FALSE
  /\ taskFetches = {}
  /\ showAddProject = FALSE
  /\ formData = [projectName |-> <<>>, description |-> <<>>]
  /\ errors = NoErrors
  /\ modalSubmitting = FALSE
  /\ projectCalls = {}
  /\ attempt = Null

\* the table has been handed its tasks and has not rendered yet
TableMounted(list) ==
  /\ tasks = list
  /\ summary = Null

Init ==
  /\ \E row \in InitialRows :
       store = [id \in TaskIds |-> IF id = 1 THEN row ELSE NoTask]
  /\ nextId = 2
  /\ requests = 0
  /\ inUpdate = {}
  /\ last = NoRequest
  /\ allTasks = [id \in TaskIds |->
                   IF store[id] = NoTask THEN NoTask ELSE ViewTask(store[id])]
  /\ editingTaskId = 0
  /\ editedTaskName = <<>>
  /\ editedExpectedHours = <<>>
  /\ editedStatus = "pending"
  /\ isSaving = FALSE
  /\ saving = Null
  /\ ViewMounted
  /\ reviewStore = SeedReviews(store)
  /\ nextReviewId = 2
  /\ PanelMounted(PanelUser)
  /\ TableMounted(<<>>)
  /\ DashboardMounted

\* requests of any API client
Next ==
  \/ \E session \in Sessions, body \in PostBodies : POST(session, body)
  \/ \E session \in Sessions, id \in TaskIds, body \in PutBodies :
       PUT(session, id, body)
  \/ \E session \in Sessions, id \in TaskIds : DELETE(session, id)

Spec == Init /\ [][Next]_vars

\* updates and deletes of API clients, a PUT taking its two statements
\* one at a time
NextRace ==
  \/ \E session \in Sessions, id \in TaskIds, body \in ApiPutBodies :
       PUTSelect(session, id, body)
  \/ \E u \in inUpdate : PUTUpdate(u)
  \/ \E session \in Sessions, id \in TaskIds : DELETE(session, id)

SpecRace == Init /\ [][NextRace]_vars

\* requests of any API client, reads included
NextApi ==
  \/ \E session \in Sessions, body \in ApiPostBodies : POST(session, body)
  \/ \E session \in Sessions, id \in TaskIds, body \in ApiPutBodies :
       PUT(session, id, body)
  \/ \E session \in Sessions, id \in TaskIds : DELETE(session, id)
  \/ \E session \in Sessions, query \in Queries : GETAll(session, query)
  \/ \E session \in Sessions, id \in TaskIds : GET(session, id)

SpecApi == Init /\ [][NextApi]_vars

\* rows present when a behaviour of reads starts: any project, owner and
\* status
ReadRows ==
  {Row(<<"p">>, "e1", <<"a">>, Null, 1, 1, "pending"),
   Row(<<"p">>, "e2", <<"a">>, Null, 1, 1, "approved"),
   Row(<<"r">>, "e1", <<"a">>, Null, 1, 1, "approved"),
   Row(<<"r">>, "e2", <<"a">>, Null, 1, 1, "pending")}

\* every id has been handed out; some of the rows have been deleted since
InitRead ==
  /\ store \in [TaskIds -> ReadRows \cup {NoTask}]
  /\ nextId = MaxTasks + 1
  /\ requests = 0
  /\ inUpdate = {}
  /\ last = NoRequest
  /\ allTasks = [id \in TaskIds |->
                   IF store[id] = NoTask THEN NoTask ELSE ViewTask(store[id])]
  /\ editingTaskId = 0
  /\ editedTaskName = <<>>
  /\ editedExpectedHours = <<>>
  /\ editedStatus = "pending"
  /\ isSaving = FALSE
  /\ saving = Null
  /\ ViewMounted
  /\ reviewStore = SeedReviews(store)
  /\ nextReviewId = 2
  /\ PanelMounted(PanelUser)
  /\ TableMounted(<<>>)
  /\ DashboardMounted

\* reads, and the deletes between them
NextRead ==
  \/ \E session \in Sessions, query \in Queries : GETAll(session, query)
  \/ \E session \in Sessions, id \in TaskIds : GET(session, id)
  \/ \E session \in Sessions, id \in TaskIds : DELETE(session, id)

SpecRead == InitRead /\ [][NextRead]_vars

\* the reviews present when a behaviour of the review section starts: none,
\* or the administrator's own
InitReviews ==
  /\ store = [id \in TaskIds |->
               IF id = 1 THEN Row(<<"p">>, "e1", <<"a">>, Str(<<"d">>), 1, 1,
                                  "pending")
               ELSE NoTask]
  /\ nextId = 2
  /\ requests = 0
  /\ inUpdate = {}
  /\ last = NoRequest
  /\ allTasks = [id \in TaskIds |->
                   IF store[id] = NoTask THEN NoTask ELSE ViewTask(store[id])]
  /\ editingTaskId = 0
  /\ editedTaskName = <<>>
  /\ editedExpectedHours = <<>>
  /\ editedStatus = "pending"
  /\ isSaving = FALSE
  /\ saving = Null
  /\ ViewMounted
  /\ \/ reviewStore = SeedReviews(store) /\ nextReviewId = 2
     \/ reviewStore = [id \in ReviewIds |-> NoReview] /\ nextReviewId = 1
  /\ \E data \in {NoSession, PanelUser} : PanelMounted(data)
  /\ TableMounted(<<>>)
  /\ DashboardMounted

\* bodies of the review requests of API clients
SubmitBodies == [taskId : TaskIds, rating : RatingIn, feedback : {Null}]
AmendBodies == [rating : RatingIn, feedback : {Null}]

\* the administrator working in TaskReviewSection while other reviewers send
\* requests of their own
NextReviews ==
  \/ \E session \in ReviewClients, body \in SubmitBodies :
       Submit(session, body)
  \/ \E session \in ReviewClients, id \in ReviewIds, body \in AmendBodies :
       Amend(session, id, body)
  \/ \E session \in ReviewClients, id \in ReviewIds :
       DeleteReview(session, id)
  \/ useSession
  \/ \E call \in calls : fetchReviewsResponse(call)
  \/ setShowForm
  \/ \E star \in Stars : setRating(star)
  \/ CancelForm
  \/ handleSubmitReview
  \/ \E call \in calls : handleSubmitReviewResponse(call)
  \/ handleStartEdit
  \/ \E star \in Stars : setEditRating(star)
  \/ handleCancelReviewEdit
  \/ handleUpdateReview
  \/ \E call \in calls : handleUpdateReviewResponse(call)
  \/ handleDeleteReview
  \/ \E call \in calls : handleDeleteReviewResponse(call)

SpecReviews == InitReviews /\ [][NextReviews]_vars

\* who opens the review section of e1's task, and who sends reply requests:
\* the owner, another employee and an administrator
ReplyViewers == Users
ReplyClients == Sessions
\* the reviewers of the task
Reviewers == {PanelUser, [id |-> "a2", role |-> "platform_admin"]}

\* the administrator's review with the owner's reply to it
RepliedReview ==
  [Review(1, "a1", "admin", 4) EXCEPT !.reply = Str(<<"o", "k">>),
                                      !.repliedAt = Num(0)]

\* task 1 of e1 has no review, a review, or a review with a reply
InitReplies ==
  /\ store = [id \in TaskIds |->
               IF id = 1 THEN Row(<<"p">>, "e1", <<"a">>, Str(<<"d">>), 1, 1,
                                  "pending")
               ELSE NoTask]
  /\ nextId = 2
  /\ requests = 0
  /\ inUpdate = {}
  /\ last = NoRequest
  /\ allTasks = [id \in TaskIds |->
                   IF store[id] = NoTask THEN NoTask ELSE ViewTask(store[id])]
  /\ editingTaskId = 0
  /\ editedTaskName = <<>>
  /\ editedExpectedHours = <<>>
  /\ editedStatus = "pending"
  /\ isSaving = FALSE
  /\ saving = Null
  /\ ViewMounted
  /\ \/ reviewStore = [id \in ReviewIds |-> NoReview] /\ nextReviewId = 1
     \/ reviewStore = SeedReviews(store) /\ nextReviewId = 2
     \/ /\ reviewStore = [SeedReviews(store) EXCEPT ![1] = RepliedReview]
        /\ nextReviewId = 2
  /\ \E data \in ReplyViewers : PanelMounted(data)
  /\ TableMounted(<<>>)
  /\ DashboardMounted

\* the one review request each reviewer sends
ReplySubmitBodies == [taskId : {PanelTaskId}, rating : {Num(4)}, feedback : {Null}]
ReplyAmendBodies == [rating : {Num(5)}, feedback : {Null}]
ReplyBodies == [reply : ReplyIn]

\* the viewer working in the employee's part of TaskReviewSection while
\* reviewers and repliers send requests of their own
NextReplies ==
  \/ \E session \in Reviewers, body \in ReplySubmitBodies :
       Submit(session, body)
  \/ \E session \in Reviewers, id \in ReviewIds, body \in ReplyAmendBodies :
       Amend(session, id, body)
  \/ \E session \in Reviewers, id \in ReviewIds : DeleteReview(session, id)
  \/ \E session \in ReplyClients, id \in ReviewIds, body \in ReplyBodies :
       Reply(session, id, body)
  \/ \E session \in ReplyClients, id \in ReviewIds : DeleteReply(session, id)
  \/ \E call \in calls : fetchReviewsResponse(call)
  \/ \E reviewId \in ReviewIds : setReplyingToId(reviewId)
  \/ \E v \in ReplyTexts : setReplyText(v)
  \/ CancelReply
  \/ \E reviewId \in ReviewIds : handleSubmitReply(reviewId)
  \/ \E call \in calls : handleSubmitReplyResponse(call)
  \/ \E reviewId \in ReviewIds : handleDeleteReply(reviewId)
  \/ \E call \in calls : handleDeleteReplyResponse(call)

SpecReplies == InitReplies /\ [][NextReplies]_vars

\* the administrator filling in AddProjectModal
NextModal ==
  \/ setShowAddProject
  \/ onClose
  \/ \E value \in ProjectNames : handleChange("projectName", value)
  \/ \E value \in Descriptions : handleChange("description", value)
  \/ handleSubmit
  \/ \E call \in projectCalls, ok \in BOOLEAN : handleSubmitResponse(call, ok)

SpecModal == Init /\ [][NextModal]_vars

\* the dashboard between the project list and the table of a project
NextDashboard ==
  \/ \E projectId \in Projects : handleProjectClick(Project(projectId))
  \/ handleBack
  \/ \E call \in taskFetches, ok \in BOOLEAN : fetchTasksResponse(call, ok)
  \/ ProjectDetailTable
  \/ setShowAddProject
  \/ onClose
  \/ \E value \in ProjectNames : handleChange("projectName", value)

SpecDashboard == Init /\ [][NextDashboard]_vars

\* the task lists handed to ProjectDetailTable
InitSummary ==
  /\ store = [id \in TaskIds |-> NoTask]
  /\ nextId = 1
  /\ requests = 0
  /\ inUpdate = {}
  /\ last = NoRequest
  /\ allTasks = [id \in TaskIds |-> NoTask]
  /\ editingTaskId = 0
  /\ editedTaskName = <<>>
  /\ editedExpectedHours = <<>>
  /\ editedStatus = "pending"
  /\ isSaving = FALSE
  /\ saving = Null
  /\ ViewMounted
  /\ reviewStore = [id \in ReviewIds |-> NoReview]
  /\ nextReviewId = 1
  /\ PanelMounted(PanelUser)
  /\ \E list \in TaskLists : TableMounted(list)
  /\ DashboardMounted

NextSummary == ProjectDetailTable

SpecSummary == InitSummary /\ [][NextSummary]_vars

\* the administrator working in ProjectDetailView
NextView ==
  \/ \E taskId \in TaskIds : handleEditClick(taskId)
  \/ \E v \in EditedNames : setEditedTaskName(v)
  \/ \E v \in EditedHours : setEditedExpectedHours(v)
  \/ \E v \in TaskStatus : setEditedStatus(v)
  \/ handleCancelEdit
  \/ \E taskId \in TaskIds : handleSaveEdit(taskId)
  \/ handleSaveEditResponse

SpecView == Init /\ [][NextView]_vars

\* the view opened on a project with two tasks, of two employees
InitProjectView ==
  /\ \E row \in InitialRows :
       store = [id \in TaskIds |->
                  IF id = 1 THEN row
                  ELSE IF id = 2
                    THEN Row(<<"p">>, "e2", <<"b">>, Null, 2, 0, "approved")
                  ELSE NoTask]
  /\ nextId = 3
  /\ requests = 0
  /\ inUpdate = {}
  /\ last = NoRequest
  /\ allTasks = [id \in TaskIds |->
                   IF store[id] = NoTask THEN NoTask ELSE ViewTask(store[id])]
  /\ editingTaskId = 0
  /\ editedTaskName = <<>>
  /\ editedExpectedHours = <<>>
  /\ editedStatus = "pending"
  /\ isSaving = FALSE
  /\ saving = Null
  /\ ViewMounted
  /\ reviewStore = SeedReviews(store)
  /\ nextReviewId = 2
  /\ PanelMounted(PanelUser)
  /\ TableMounted(<<>>)
  /\ DashboardMounted

\* the administrator editing the tasks of that project
SpecEditing == InitProjectView /\ [][NextView]_vars

\* the administrator searching, selecting and deleting tasks
NextSelection ==
  \/ \E term \in SearchTerms : setTaskSearchTerm(term)
  \/ \E taskId \in TaskIds : handleToggleSelect(taskId)
  \/ handleSelectAll
  \/ handleDeselectAll
  \/ \E taskId \in TaskIds : handleDeleteTask(taskId)
  \/ \E call \in deletes : handleDeleteTaskResponse(call)

SpecSelection == InitProjectView /\ [][NextSelection]_vars

\* ============================================================ properties
\* vocabulary of the properties, stated over the last request and response
Authenticated == last.session # NoSession
IsAdmin(session) == session # NoSession /\ session.role = "platform_admin"
NonAdmin(session) == ~IsAdmin(session)
\* the same, of a request record
ByAdmin(request) == IsAdmin(request.session)
ByNonAdmin(request) == ~IsAdmin(request.session)
ByUser(request, userId) ==
  request.session # NoSession /\ request.session.id = userId
Supplied(v) == v.t # "undefined"
\* a supplied hours value that is a number >= 0
NonNegativeNumber(v) == v.t = "number" /\ v.v >= 0
\* a name that is missing, empty or only whitespace
BlankName(v) == v.t # "string" \/ Trim(v.v) = <<>>
\* the body is one PUT answers with 400
UpdateBodyInvalid(body) ==
  \/ BlankName(body.taskName)
  \/ Supplied(body.actualHours) /\ ~NonNegativeNumber(body.actualHours)
\* a PUT by a non-administrator on an existing task that the caller does not
\* own or that is no longer pending
NonAdminLockedUpdate ==
  /\ last.op = "PUT"
  /\ Authenticated
  /\ NonAdmin(last.session)
  /\ last.before # NoTask
  /\ ~(last.before.employeeId = last.session.id
       /\ last.before.status = "pending")

\* C1 (as stated): an Update by a non-administrator who is not the owner of
\* a pending task always answers 403 and leaves the stored task unchanged.
C1_LockedUpdateIs403 ==
  NonAdminLockedUpdate =>
    last.code = 403 /\ store[last.id] = last.before

\* C1 (amended): an Update by a non-administrator who is not the owner of a
\* pending task fails and leaves the stored task unchanged; the answer is 403
\* when the body passes validation and 400 when it does not, because PUT
\* validates the body before it looks at the task.
C1_LockedUpdateFails ==
  NonAdminLockedUpdate =>
    /\ store[last.id] = last.before
    /\ last.code = IF UpdateBodyInvalid(last.body) THEN 400 ELSE 403

\* C1 witness: the owner's valid Update of a decided task was answered 403.
C1_Witness ==
  /\ NonAdminLockedUpdate
  /\ last.before.employeeId = last.session.id
  /\ last.before.status = "approved"
  /\ last.code = 403
  /\ store[last.id] = last.before

\* fields an Update accepts: a name that is not blank, and hours that are
\* each left out or a number >= 0
ValidUpdateFields(body) ==
  /\ ~BlankName(body.taskName)
  /\ ~Supplied(body.expectedHours) \/ NonNegativeNumber(body.expectedHours)
  /\ ~Supplied(body.actualHours) \/ NonNegativeNumber(body.actualHours)

AdminValidUpdate ==
  /\ last.op = "PUT"
  /\ IsAdmin(last.session)
  /\ last.before # NoTask
  /\ ValidUpdateFields(last.body)

\* C2: an administrator's Update with valid fields succeeds on any existing
\* task, whatever its status and owner, and the stored row then carries the
\* supplied name (trimmed) and the supplied hours.
C2_AdminUpdateSucceeds ==
  AdminValidUpdate =>
    /\ last.code = 200
    /\ store[last.id] # NoTask
    /\ store[last.id].taskName = Trim(last.body.taskName.v)
    /\ Supplied(last.body.expectedHours) =>
         store[last.id].expectedHours = last.body.expectedHours.v
    /\ Supplied(last.body.actualHours) =>
         store[last.id].actualHours = last.body.actualHours.v

\* C2 witness: an administrator updated a rejected task of another user and
\* the new expected hours are stored.
C2_Witness ==
  /\ AdminValidUpdate
  /\ last.before.status = "rejected"
  /\ last.before.employeeId # last.session.id
  /\ last.code = 200
  /\ last.body.expectedHours = Num(0)
  /\ store[last.id].expectedHours = 0
  /\ last.before.expectedHours # 0

DeleteOfExisting ==
  /\ last.op = "DELETE"
  /\ Authenticated
  /\ last.before # NoTask

\* C3: Delete removes the task and answers 200 when the caller owns it (at
\* any status) or is an administrator; for any other authenticated caller it
\* answers 403 and the task stays in the store.
C3_DeleteByOwnerOrAdmin ==
  DeleteOfExisting =>
    IF last.before.employeeId = last.session.id \/ IsAdmin(last.session)
      THEN last.code = 200 /\ store[last.id] = NoTask
      ELSE last.code = 403 /\ store[last.id] = last.before

\* C3 witness: the owning employee deleted an approved task.
C3_Witness ==
  /\ DeleteOfExisting
  /\ NonAdmin(last.session)
  /\ last.before.employeeId = last.session.id
  /\ last.before.status = "approved"
  /\ last.code = 200
  /\ store[last.id] = NoTask

\* the rows a step removes or changes
Touched(id) == store[id] # NoTask /\ store'[id] # store[id]

\* C4 (as stated): a non-administrator's request removes or changes a task
\* only while it is pending and only when it is the caller's own.
C4_NonAdminOnlyPending ==
  [][ByNonAdmin(last') =>
       \A id \in TaskIds :
         Touched(id) =>
           /\ store[id].status = "pending"
           /\ ByUser(last', store[id].employeeId)]_vars

\* C4 (amended): a non-administrator's request removes or changes only the
\* caller's own task, and changes (edits) it only while it is pending; a
\* Delete by the owner removes the task at any status.
C4_NonAdminOnlyOwn ==
  [][ByNonAdmin(last') =>
       \A id \in TaskIds :
         Touched(id) =>
           /\ ByUser(last', store[id].employeeId)
           /\ store'[id] # NoTask => store[id].status = "pending"]_vars

\* C4 witness: a non-administrator edited their own pending task.
C4_Witness ==
  /\ last.op = "PUT"
  /\ Authenticated
  /\ NonAdmin(last.session)
  /\ last.code = 200
  /\ last.before.status = "pending"
  /\ last.before.employeeId = last.session.id
  /\ store[last.id] # last.before

\* C5: a stored task's status changes only from pending to approved or
\* rejected or by an administrator's request, and never by the request of a
\* non-administrator.
C5_StatusTransitions ==
  [][\A id \in TaskIds :
       (store[id] # NoTask /\ store'[id] # NoTask
        /\ store'[id].status # store[id].status) =>
          /\ \/ ByAdmin(last')
             \/ /\ store[id].status = "pending"
                /\ store'[id].status \in {"approved", "rejected"}
          /\ ByAdmin(last')]_vars

\* C5 witness: a non-administrator's successful Update carried a status and
\* the stored status stayed as it was.
C5_Witness ==
  /\ last.op = "PUT"
  /\ Authenticated
  /\ NonAdmin(last.session)
  /\ last.code = 200
  /\ last.body.status = Str(<<"approved">>)
  /\ store[last.id].status = "pending"
  /\ store[last.id] # last.before

\* C6: when an administrator's saved edit carries a status and the Update
\* answers 200, the stored task has that status, and so the status the view
\* shows for the task equals the stored one.
C6_SavedStatusStored ==
  (/\ last.op = "PUT"
   /\ IsAdmin(last.session)
   /\ last.code = 200
   /\ Supplied(last.body.status)) =>
    /\ store[last.id].status = last.body.status.v[1]
    /\ allTasks[last.id] # NoTask =>
         allTasks[last.id].status = store[last.id].status

\* C7: every stored task has expectedHours >= 0 and actualHours >= 0.
C7_HoursNonNegative ==
  \A id \in TaskIds :
    store[id] # NoTask =>
      store[id].expectedHours >= 0 /\ store[id].actualHours >= 0

CreateOrUpdate == last.op \in {"POST", "PUT"} /\ Authenticated

\* C8: every stored task's name is non-empty after trimming, and Create and
\* Update answer 400, writing nothing, to a name that is missing, empty or
\* only whitespace.
C8_NameNotBlank ==
  /\ \A id \in TaskIds :
       store[id] # NoTask => Trim(store[id].taskName) # <<>>
  /\ (CreateOrUpdate /\ BlankName(last.body.taskName)) =>
       last.code = 400 /\ store[last.id] = last.before

\* a supplied hours value that is negative or not a number
BadHours(v) == Supplied(v) /\ ~NonNegativeNumber(v)

\* C9: Create and Update answer 400, writing nothing, whenever a supplied
\* expectedHours or actualHours is negative or not a number.
C9_BadHoursRejected ==
  (/\ CreateOrUpdate
   /\ BadHours(last.body.expectedHours) \/ BadHours(last.body.actualHours)) =>
    last.code = 400 /\ store[last.id] = last.before

\* a Create the claim says must succeed: authenticated, a non-empty name, an
\* existing project, hours that are numbers >= 0
ValidCreate(request) ==
  /\ request.op = "POST"
  /\ request.session # NoSession
  /\ request.body.taskName.t = "string"
  /\ request.body.taskName.v # <<>>
  /\ request.body.projectId.t = "string"
  /\ request.body.projectId.v \in Projects
  /\ NonNegativeNumber(request.body.expectedHours)
  /\ NonNegativeNumber(request.body.actualHours)

\* the response to a Create: 201 with a pending task owned by the caller
CreatedFor(request) ==
  /\ request.code = 201
  /\ request.task # Null
  /\ request.task.status = "pending"
  /\ request.task.employeeId = request.session.id

\* C10: a Create by an authenticated caller with a non-empty name, an
\* existing project and non-negative hours inserts exactly one new task,
\* pending and owned by the session's user whatever the body says, returns
\* it, and leaves every other task unchanged.
C10_CreateInserts ==
  [][ValidCreate(last') =>
       /\ CreatedFor(last')
       /\ \E id \in TaskIds :
            /\ store[id] = NoTask
            /\ store'[id] = last'.task
            /\ \A other \in TaskIds \ {id} : store'[other] = store[other]]_vars

\* a Create with a name that is not blank, an existing project and hours that
\* are numbers >= 0, one of them the number 0
ZeroHoursCreate ==
  /\ ValidCreate(last)
  /\ ~BlankName(last.body.taskName)
  /\ last.body.expectedHours = Num(0) \/ last.body.actualHours = Num(0)

\* C11: a Create with a valid name, an existing project and expectedHours = 0
\* or actualHours = 0 succeeds (201) and the task is stored.
C11_ZeroHoursAccepted ==
  ZeroHoursCreate =>
    /\ last.code = 201
    /\ store[last.id] # NoTask
    /\ store[last.id] = last.task

\* a Create by an authenticated caller whose projectId is a text that names
\* no row of Projects
UnresolvedProjectCreate(request) ==
  /\ request.op = "POST"
  /\ request.session # NoSession
  /\ request.body.projectId.t = "string"
  /\ request.body.projectId.v # <<>>
  /\ request.body.projectId.v \notin Projects

\* a value POST's required-field check lets through
Present(v) ==
  \/ v.t = "string" /\ v.v # <<>>
  \/ v.t = "number" /\ v.v # 0

\* C12 (as stated): a Create whose projectId resolves to no project answers
\* 400 (ValidationError) and inserts no task.
C12_UnresolvedProjectIs400 ==
  UnresolvedProjectCreate(last) =>
    /\ last.code = 400
    /\ store[last.id] = NoTask
    /\ nextId = last.id

\* C12 (amended): a Create whose projectId resolves to no project fails and
\* inserts no task (the slot of the next id stays empty and the id is not
\* handed out); the answer is 404 (NotFoundError) whenever the name and both
\* hours are present, and 400 or 404 otherwise.
C12_UnresolvedProjectFails ==
  UnresolvedProjectCreate(last) =>
    /\ store[last.id] = NoTask
    /\ nextId = last.id
    /\ last.code \in {400, 404}
    /\ (/\ Present(last.body.taskName)
        /\ Present(last.body.expectedHours)
        /\ Present(last.body.actualHours)) => last.code = 404

\* C12 witness: a Create naming an unknown project, otherwise complete, was
\* answered 404 and the slot it would have filled is empty.
C12_Witness ==
  /\ UnresolvedProjectCreate(last)
  /\ Present(last.body.taskName)
  /\ last.body.expectedHours = Num(1)
  /\ last.body.actualHours = Num(1)
  /\ last.code = 404
  /\ store[last.id] = NoTask

\* an Update by an authenticated caller on an id that resolves to no task
UnresolvedUpdate ==
  /\ last.op = "PUT"
  /\ Authenticated
  /\ last.before = NoTask

\* C13 (as stated): an Update on an id that resolves to no task answers 404
\* for every authenticated caller and every body.
C13_UnresolvedUpdateIs404 ==
  UnresolvedUpdate => last.code = 404

\* C13 (amended): an Update on an id that resolves to no task fails and
\* stores nothing; the answer is 404 when the body's fields are valid and 400
\* when the name is blank or a supplied actualHours is not a number >= 0,
\* because PUT validates the body before it looks the task up.
C13_UnresolvedUpdateFails ==
  UnresolvedUpdate =>
    /\ store[last.id] = NoTask
    /\ last.code \in {400, 404}
    /\ UpdateBodyInvalid(last.body) => last.code = 400
    /\ ValidUpdateFields(last.body) => last.code = 404

\* C13 witness: an Update with a blank name on an unresolved id was answered
\* 400.
C13_Witness ==
  /\ UnresolvedUpdate
  /\ BlankName(last.body.taskName)
  /\ last.code = 400
  /\ store[last.id] = NoTask

\* C14: a successful Update leaves every field the body does not supply
\* (description, expectedHours, actualHours) and the task's status, owner and
\* project at their prior stored values.
C14_UpdateChangesOnlySupplied ==
  (last.op = "PUT" /\ last.code = 200) =>
    /\ ~Supplied(last.body.description) =>
         store[last.id].description = last.before.description
    /\ ~Supplied(last.body.expectedHours) =>
         store[last.id].expectedHours = last.before.expectedHours
    /\ ~Supplied(last.body.actualHours) =>
         store[last.id].actualHours = last.before.actualHours
    /\ store[last.id].status = last.before.status
    /\ store[last.id].employeeId = last.before.employeeId
    /\ store[last.id].projectId = last.before.projectId

\* a Create, Update or Delete answered with a validation (400), authorization
\* (403) or not-found (404) error
ErrorResponse(request) ==
  /\ request.op \in {"POST", "PUT", "DELETE"}
  /\ request.code \in {400, 403, 404}

\* C16: a Create, Update or Delete that ends in a validation, authorization
\* or not-found error leaves the whole Store as it was before the request.
C16_ErrorsLeaveStore ==
  [][ErrorResponse(last') => store' = store /\ nextId' = nextId]_vars

\* C16 witness: a Delete of another employee's task was answered 403 and the
\* task is still stored as it was.
C16_Witness ==
  /\ last.op = "DELETE"
  /\ last.code = 403
  /\ last.before # NoTask
  /\ store[last.id] = last.before

\* a task operation requested without a session
NoSessionRequest(request) ==
  /\ request.op \in {"LIST", "GET", "POST", "PUT", "DELETE"}
  /\ request.session = NoSession

\* C15: with no session, List, Get, Create, Update and Delete answer 401,
\* return no data and leave the Store as it was.
C15_NoSessionIs401 ==
  [][NoSessionRequest(last') =>
       /\ last'.code = 401
       /\ last'.task = Null
       /\ store' = store
       /\ nextId' = nextId]_vars

\* C15 witness: a List without a session was answered 401 while a task is
\* stored.
C15_Witness ==
  /\ last.op = "LIST"
  /\ last.session = NoSession
  /\ last.code = 401
  /\ \E id \in TaskIds : store[id] # NoTask

\* a filter counts as supplied when its search parameter is a non-empty text
SuppliedFilter(v) == v.t = "string" /\ v.v # <<>>

\* the task satisfies every supplied filter
Matches(query, task) ==
  /\ SuppliedFilter(query.projectId) => task.projectId = query.projectId.v
  /\ SuppliedFilter(query.status) => <<task.status>> = query.status.v
  /\ SuppliedFilter(query.employeeId) =>
       <<task.employeeId>> = query.employeeId.v

\* the listed entry is the stored task with this id
ListedAs(entry, id) ==
  /\ entry.taskId = id
  /\ \A f \in DOMAIN store[id] : entry[f] = store[id][f]

\* C17: for any authenticated caller, List answers 200 with exactly the
\* stored tasks that satisfy all of the supplied filters (all tasks when none
\* is supplied), each once, the later created first.
C17_ListFiltered ==
  (last.op = "LIST" /\ Authenticated) =>
    /\ last.code = 200
    /\ \A id \in TaskIds :
         (store[id] # NoTask /\ Matches(last.body, store[id])) <=>
           \E i \in 1..Len(last.task) : last.task[i].taskId = id
    /\ \A i \in 1..Len(last.task) :
         /\ last.task[i].taskId \in TaskIds
         /\ ListedAs(last.task[i], last.task[i].taskId)
    /\ \A i, j \in 1..Len(last.task) :
         i < j => last.task[i].taskId > last.task[j].taskId

\* C17 witness: a List by an employee with a status and an employee filter
\* returned one task while another stored task satisfies only one of the two
\* filters.
C17_Witness ==
  /\ last.op = "LIST"
  /\ last.code = 200
  /\ NonAdmin(last.session)
  /\ SuppliedFilter(last.body.status)
  /\ SuppliedFilter(last.body.employeeId)
  /\ Len(last.task) = 1
  /\ \E id \in TaskIds :
       /\ store[id] # NoTask
       /\ <<store[id].employeeId>> = last.body.employeeId.v
       /\ <<store[id].status>> # last.body.status.v

\* the id has been handed out and its task is no longer stored
Deleted(id) == id < nextId /\ store[id] = NoTask

\* the response is a task list that contains the task with this id
Lists(request, id) ==
  /\ request.op = "LIST"
  /\ request.code = 200
  /\ \E i \in 1..Len(request.task) : request.task[i].taskId = id

\* the response is the task with this id
Gets(request, id) ==
  /\ request.op = "GET"
  /\ request.id = id
  /\ request.code # 404

\* the request is a Delete of the task with this id, answered 200
Deletes(request, id) ==
  /\ request.op = "DELETE"
  /\ request.id = id
  /\ request.code = 200

\* C18: a successful Delete removes the task and its reviews; from then on
\* the task stays removed, no List contains it, an authenticated Get on it
\* answers 404, and ListByTask returns none of its reviews.
C18_DeletedTaskGone ==
  [][\A id \in TaskIds :
       /\ Deletes(last', id) => Deleted(id)'
       /\ Deleted(id) =>
            /\ Deleted(id)'
            /\ ~Lists(last', id)
            /\ last'.session # NoSession => ~Gets(last', id)
       /\ Deleted(id)' => ListByTask(reviewStore', id) = <<>>]_vars

\* C18 witness: task 1, which had a review, has been deleted, and a List
\* answered since does not contain it.
C18_Witness ==
  /\ Deleted(1)
  /\ last.op = "LIST"
  /\ last.code = 200
  /\ ~Lists(last, 1)
  /\ ListByTask(reviewStore, 1) = <<>>
  /\ nextReviewId > 1

\* the number a decimal text stands for
HoursValue(text) == CHOOSE n \in 0..99 : DecimalText(n) = text

RECURSIVE SumOfExpected(_)
\* sum of the expected hours of the tasks
SumOfExpected(list) ==
  IF list = <<>> THEN 0
  ELSE HoursValue(Head(list).expectedHours) + SumOfExpected(Tail(list))

RECURSIVE SumOfActual(_)
\* sum of the actual hours of the tasks
SumOfActual(list) ==
  IF list = <<>> THEN 0
  ELSE HoursValue(Head(list).actualHours) + SumOfActual(Tail(list))

\* the scenario of the specification: tasks (10, 12) and (5, 3)
WebsiteRedesign == <<TableTask(10, 12), TableTask(5, 3)>>

\* C19: for every task list the summary has totalExpectedHours = sum of the
\* expected hours, totalActualHours = sum of the actual hours, variance =
\* totalActualHours - totalExpectedHours, and variancePercentage = variance /
\* totalExpectedHours * 100 when totalExpectedHours > 0 and zero when it is
\* 0; tasks (10, 12) and (5, 3) give 15, 15, 0, 0.
C19_SummaryFormulas ==
  summary # Null =>
    /\ summary.totalExpectedHours = SumOfExpected(tasks)
    /\ summary.totalActualHours = SumOfActual(tasks)
    /\ summary.variance = SumOfActual(tasks) - SumOfExpected(tasks)
    /\ summary.variancePercentage.den > 0
    /\ IF SumOfExpected(tasks) > 0
         THEN summary.variancePercentage.num * SumOfExpected(tasks) =
                summary.variance * 100 * summary.variancePercentage.den
         ELSE summary.variancePercentage.num = 0
    /\ tasks = WebsiteRedesign =>
         /\ summary.totalExpectedHours = 15
         /\ summary.totalActualHours = 15
         /\ summary.variance = 0
         /\ summary.variancePercentage.num = 0

\* C19 witness: the table has rendered the summary of tasks (10, 12) and
\* (5, 3): both totals are 15.
C19_Witness ==
  /\ tasks = WebsiteRedesign
  /\ summary # Null
  /\ summary.totalExpectedHours = 15
  /\ summary.totalActualHours = 15

\* the guarded case: the table has rendered a list whose expected hours are
\* all 0 while its actual hours are not
ZeroExpectedRendered ==
  /\ summary # Null
  /\ tasks # <<>>
  /\ SumOfExpected(tasks) = 0
  /\ SumOfActual(tasks) > 0

\* the reviews of this reviewer for this task
ReviewsBy(taskId, reviewerId) ==
  {id \in ReviewsOf(reviewStore, taskId) :
     reviewStore[id].reviewerId = reviewerId}

\* a Submit with a valid rating by a reviewer who has a review for the task
SecondSubmit ==
  /\ last.op = "SUBMIT"
  /\ Authenticated
  /\ RatingValid(last.body.rating)
  /\ last.before # NoReview

\* an Amend with a valid rating by the reviewer of an existing review
OwnAmend ==
  /\ last.op = "AMEND"
  /\ Authenticated
  /\ RatingValid(last.body.rating)
  /\ last.before # NoReview
  /\ last.before.reviewerId = last.session.id

\* at most one review per (task, reviewer); a second Submit answers 409 and
\* adds nothing; an Amend of one's own review answers 200 and ListByTask
\* then shows one review of the reviewer, with the amended rating
LedgerKeepsOneReview ==
  /\ \A taskId \in TaskIds, user \in (Users \cup ReviewClients) \ {NoSession} :
       Cardinality(ReviewsBy(taskId, user.id)) <= 1
  /\ SecondSubmit =>
       last.code = 409 /\ reviewStore[last.id] = NoReview
  /\ OwnAmend =>
       /\ last.code = 200
       /\ \E i \in 1..Len(ListByTask(reviewStore, last.before.taskId)) :
            LET listed == ListByTask(reviewStore, last.before.taskId)
            IN /\ listed[i].reviewerId = last.session.id
               /\ listed[i].rating = last.body.rating.v
               /\ \A j \in 1..Len(listed) :
                    listed[j].reviewerId = last.session.id => j = i

\* the section offers the create form only when the administrator has no
\* review on the task
FormOnlyWithoutReview ==
  CreateFormOffered => ReviewsBy(PanelTaskId, PanelUser.id) = {}

\* C20: at most one review exists per (task, administrator): a second Submit
\* by the same reviewer answers 409 and adds nothing, an Amend of the
\* existing review succeeds and ListByTask then shows exactly one review with
\* the amended rating, and the review section offers the create form only
\* when the current administrator has no review on the task.
C20_OneReviewPerAdmin ==
  LedgerKeepsOneReview /\ FormOnlyWithoutReview

\* no fetchReviews call of the section is awaiting its response
NoFetchInFlight == \A call \in calls : call.kind # "fetchReviews"

\* once the section's fetches have been answered, the create form is offered
\* only when the administrator has no review on the task
SettledFormOnlyWithoutReview ==
  NoFetchInFlight => FormOnlyWithoutReview

\* ---------------------------------------------------------------- C21
\* a Submit or an Amend whose rating is not an integer from 1 to 5
BadRatingRequest(request) ==
  /\ request.op \in {"SUBMIT", "AMEND"}
  /\ ~RatingValid(request.body.rating)

\* nothing but the rating stands against the request
OnlyRatingWrong(request) ==
  /\ request.session # NoSession
  /\ request.op = "SUBMIT" =>
       /\ Lookup(store, request.body.taskId) # NoTask
       /\ request.before = NoReview
  /\ request.op = "AMEND" =>
       /\ request.before # NoReview
       /\ request.before.reviewerId = request.session.id

\* every stored review has a rating from 1 to 5
StoredRatingsValid ==
  \A id \in ReviewIds :
    reviewStore[id] # NoReview => reviewStore[id].rating \in 1..5

\* the requests of the review forms, in flight and answered, carry a rating
\* from 1 to 5
FormsSendValidRating ==
  /\ \A call \in calls : call.kind \in {"POST", "PUT"} => call.rating \in 1..5
  /\ last.op \in {"SUBMIT", "AMEND"} /\ last.session = PanelUser =>
       RatingValid(last.body.rating)

\* C21: a Submit or Amend whose rating is outside 1..5 fails, with
\* ValidationError (400) when nothing else stands against it, and creates or
\* changes no review; every stored review has a rating in 1..5; the review
\* forms never send a create or update request with a rating outside 1..5.
C21_RatingInRange ==
  /\ [](StoredRatingsValid /\ FormsSendValidRating)
  /\ [](BadRatingRequest(last) =>
         /\ last.code \in {400, 401, 403, 404, 409}
         /\ OnlyRatingWrong(last) => last.code = 400)
  /\ [][BadRatingRequest(last') /\ requests' # requests =>
         reviewStore' = reviewStore /\ nextReviewId' = nextReviewId]_vars

\* C21 witness: an Amend by the review's own reviewer with a rating outside
\* 1..5 has been answered 400
C21_Witness ==
  /\ last.op = "AMEND" /\ BadRatingRequest(last) /\ OnlyRatingWrong(last)
  /\ last.code = 400

\* ---------------------------------------------------------------- C22
\* reply and repliedAt of a review are both set or both null
PairedReply(review) == (review.reply = Null) <=> (review.repliedAt = Null)

\* C22: in every reachable state every review, stored or held by the review
\* section, has reply and repliedAt both set or both null; a successful Reply
\* has set both and a successful DeleteReply has cleared both.
C22_ReplyPaired ==
  /\ \A id \in ReviewIds :
       reviewStore[id] # NoReview => PairedReply(reviewStore[id])
  /\ \A i \in 1..Len(reviews) : PairedReply(reviews[i])
  /\ last.op = "REPLY" /\ last.code = 200 =>
       /\ reviewStore[last.id].reply = last.body.reply
       /\ reviewStore[last.id].repliedAt # Null
  /\ last.op = "DELETE_REPLY" /\ last.code = 200 =>
       /\ reviewStore[last.id].reply = Null
       /\ reviewStore[last.id].repliedAt = Null

\* C22 witness: a DeleteReply has cleared the reply of a review that had one
C22_Witness ==
  /\ last.op = "DELETE_REPLY" /\ last.code = 200
  /\ last.before.reply # Null

\* ---------------------------------------------------------------- C23
\* a Reply or DeleteReply on an existing review by an identity that is not
\* the owning employee of the reviewed task
ForeignReply(request) ==
  /\ request.op \in {"REPLY", "DELETE_REPLY"}
  /\ request.session # NoSession
  /\ request.before # NoReview
  /\ ~OwnsReviewedTask(store, request.before, request.session)

\* the section shows a Reply button, a reply box or a Delete button of a reply
ReplyControlShown ==
  \E reviewId \in ReviewIds :
    ReplyButtonShown(reviewId) \/ ReplyFormShown(reviewId) \/ ReplyShown(reviewId)

\* C23: a Reply or DeleteReply by an identity other than the owning employee
\* of the reviewed task is answered ForbiddenError (403) and leaves the review,
\* its reply and repliedAt, as it was; the review section shows its reply and
\* delete-reply controls, and has reply requests in flight, only when the
\* session user is the owning employee of the task.
C23_ReplyOnlyByOwner ==
  /\ ForeignReply(last) =>
       /\ last.code = 403
       /\ reviewStore[last.id] = last.before
  /\ ReplyControlShown \/ (\E call \in calls : call.kind \in {"REPLY", "DELETE_REPLY"}) =>
       /\ sessionData # NoSession
       /\ Lookup(store, PanelTaskId) # NoTask
       /\ store[PanelTaskId].employeeId = sessionData.id

\* C23 witness: another employee's DeleteReply on a review that has a reply
\* has been answered 403
C23_Witness ==
  /\ ForeignReply(last) /\ last.op = "DELETE_REPLY"
  /\ last.session.role = "employee"
  /\ last.before.reply # Null

\* the owner sees the controls in the section
C23_ControlsShownToOwner == ReplyControlShown /\ isTaskOwner

\* ---------------------------------------------------------------- C24
\* the state of a review in its state machine
Phase(review) ==
  IF review = NoReview THEN "no-review"
  ELSE IF review.reply = Null THEN "reviewed"
  ELSE "reviewed+replied"

\* the step from `before` to `after` is a transition of the state machine,
\* taken by the operation `op`
Transition(before, after, op) ==
  \/ /\ op = "SUBMIT"
     /\ Phase(before) = "no-review" /\ Phase(after) = "reviewed"
  \/ /\ op = "REPLY"
     /\ Phase(before) = "reviewed" /\ Phase(after) = "reviewed+replied"
  \/ /\ op = "DELETE_REPLY"
     /\ Phase(before) = "reviewed+replied" /\ Phase(after) = "reviewed"
  \/ /\ op = "AMEND"
     /\ Phase(before) # "no-review" /\ Phase(after) = Phase(before)
     /\ after.reply = before.reply /\ after.repliedAt = before.repliedAt
  \/ /\ op = "DELETE_REVIEW"
     /\ Phase(before) # "no-review" /\ after = NoReview

\* an operation of the ledger has answered success
LedgerSuccess(request) ==
  /\ request.op \in {"SUBMIT", "REPLY", "DELETE_REPLY", "AMEND", "DELETE_REVIEW"}
  /\ request.code \in {200, 201}

\* the reply requests the section sends in this step are for a review it
\* holds: a Reply for one without a reply, a DeleteReply for one with a reply
SectionFollowsMachine ==
  \A call \in calls' \ calls :
    /\ call.kind = "REPLY" =>
         /\ ShownReview(call.reviewId) # Null
         /\ ShownReview(call.reviewId).reply = Null
    /\ call.kind = "DELETE_REPLY" =>
         /\ ShownReview(call.reviewId) # Null
         /\ ShownReview(call.reviewId).reply # Null

C24_SecondReplyRefused ==
  /\ last.op = "REPLY" /\ last.code = 409

\* the form the claim lets through: the trimmed name has 3 to 255 characters
\* and the description at most 1000
Acceptable(form) ==
  /\ Len(Trim(form.projectName)) >= MinProjectName
  /\ Len(Trim(form.projectName)) <= MaxProjectName
  /\ Len(form.description) <= MaxDescription

\* C25: the add-project form sends a request only when the trimmed project
\* name has 3 to 255 characters and the description at most 1000, and the
\* request carries that trimmed name; a submit of any other form sets an
\* error on a field and sends nothing.
C25_FormSendsOnlyValid ==
  /\ [][\A body \in projectCalls' \ projectCalls :
          /\ Acceptable(formData)
          /\ body.projectName = Str(Trim(formData.projectName))]_vars
  /\ [][attempt' # attempt =>
          /\ attempt'.form = formData
          /\ attempt'.sent = (projectCalls' # projectCalls)
          /\ attempt'.sent = Acceptable(formData)
          /\ ~Acceptable(formData) =>
               /\ errors'.projectName # "" \/ errors'.description # ""
               /\ projectCalls' = projectCalls]_vars

\* C25 witness: a name of four characters, two of them after trimming, has
\* been refused with an error on its field and nothing is in flight
C25_Witness ==
  /\ attempt # Null /\ ~attempt.sent
  /\ Len(attempt.form.projectName) > MinProjectName
  /\ Len(Trim(attempt.form.projectName)) < MinProjectName
  /\ Trim(attempt.form.projectName) # <<>>
  /\ errors.projectName # ""
  /\ projectCalls = {}

\* a name of 255 characters between two spaces has been sent
C25_LongestNameSent ==
  /\ attempt # Null /\ attempt.sent
  /\ Len(attempt.form.projectName) > MaxProjectName
  /\ projectCalls # {}

\* C27: whenever a project is selected and no fetchTasks call awaits its
\* response, the tasks in state are what the fetch for that project gave:
\* the project's tasks, or none when that fetch failed.
C27_TasksOfSelectedProject ==
  selectedProject # Null /\ taskFetches = {} =>
    tasks \in {ProjectTasks(selectedProject.id), <<>>}

\* C26: a PUT that answers 200 has written a row and returns it: the task is
\* stored when the response is given, and the response carries the stored
\* row.
C26_UpdateWritesWhatItReturns ==
  [][inUpdate' # inUpdate /\ last'.op = "PUT" /\ last'.code = 200 =>
       /\ store'[last'.id] # NoTask
       /\ last'.task = store'[last'.id]]_vars

\* a PUT has answered 200 after its update met the row its select had found
C26_UpdateOfStoredTask ==
  /\ last.op = "PUT" /\ last.code = 200
  /\ store[last.id] # NoTask /\ last.task = store[last.id]
  /\ last.before # last.task

\* C28: when the save of one task completes while another task is being
\* edited, the edit session of that other task (editingTaskId and the
\* edited name, hours and status) stays as it was and only the saved task's
\* row may change.
C28_SaveLeavesOtherEdit ==
  [][saving # Null /\ saving' = Null /\ editingTaskId # 0
       /\ editingTaskId # saving.taskId =>
       /\ UNCHANGED <<editingTaskId, editedTaskName, editedExpectedHours,
                      editedStatus>>
       /\ \A id \in TaskIds \ {saving.taskId} : allTasks'[id] = allTasks[id]]_vars

\* C29: a task with a DELETE request in flight has its Delete button
\* disabled wherever the button is rendered, and no task has two DELETE
\* requests in flight.
C29_OneDeletePerTask ==
  /\ \A d \in deletes :
       DeleteButtonShown(d.taskId) => ~DeleteButtonEnabled(d.taskId)
  /\ \A d1, d2 \in deletes : d1.taskId = d2.taskId => d1 = d2

\* C30: the header checkbox is checked exactly when the filtered list is
\* not empty and every task in it is selected.
C30_HeaderCheckedIffAllSelected ==
  HeaderChecked <=>
    /\ Len(filteredTasks) > 0
    /\ \A i \in 1..Len(filteredTasks) : filteredTasks[i] \in selectedTasks

\* two DELETE requests for one task await their response
C29_TwoDeletesOfOneTask ==
  \E d1, d2 \in deletes : d1.taskId = d2.taskId /\ d1 # d2

====
